---- MODULE Spec2Model ----
(***************************************************************************)
(* The attack-graph state engine of the mitigation manager: the relational *)
(* store (AttackNodes, AttackGraphs, Attacks), the per-alert ingest step   *)
(* manager.state.update and the functions of manager.model it calls.       *)
(*                                                                         *)
(* Probabilities are exact rationals held as integers in units of 1/SCALE. *)
(* MITRE technique identifiers are sequences of one-character strings, so  *)
(* that SQL LIKE is computed character by character.                      *)
(***************************************************************************)
EXTENDS Integers, Sequences, FiniteSets, TLC

VARIABLES
    nodes,      \* table AttackNodes: identifier -> row
    graphs,     \* table AttackGraphs: identifier -> initial_node
    attacks,    \* table Attacks: set of rows
    lastrowid,  \* the last row id the Attacks table handed out
    isim,       \* the conditions whose check the ISIM currently satisfies
    last,       \* the last run of update(alert): its alert, the ISIM it ran
                \* against, its locals when it ended and the exception, if
                \* any, that ended the task
    durable,    \* what the last commit on the shared connection wrote: the
                \* tables Attacks and AttackNodes as a new connection reads them
    tasks,      \* the alert-handling tasks on the event loop, by slot
    isim_down,  \* the ISIM refuses queries
    dispatch,   \* the last run of mitigate_attack_immediately: its node and
                \* alert, the workflow located, the HTTP requests sent
    heap,       \* AttackNode objects in memory, by creation order
    STATE_MANAGER,  \* the module global of manager.state (NULL: None)
    ISIM_MANAGER,   \* the module global of manager.isim (NULL: None)
    returned    \* the last direct call of a function of the store or of a
                \* module: its name, its arguments and what it returned or
                \* raised

vars == <<nodes, graphs, attacks, lastrowid, isim, last,
          durable, tasks, isim_down, dispatch, heap,
          STATE_MANAGER, ISIM_MANAGER, returned>>

-----------------------------------------------------------------------------
(* Bounds of the model.                                                    *)

\* Attack rows the store hands out before ingestion stops admitting.
MaxId == 3

\* Longest probability history an ingest step may still extend.
MaxHist == 4

\* Messages the alert bus delivers in a burst; each is handled by a task of
\* its own.
MaxTasks == 2

\* AttackNode objects a test creates.
MaxNodes == 3

\* The manager objects a caller may hand to a set function.
MaxManagers == 3

\* Row identifiers of Attacks where several attacks share a graph.
MaxRows == 4

\* The entries of a context that is written and read back.
MaxContext == 2

\* The longest chain factor 1 is compared on.
MaxChain == 6

\* The conditions of the node of the hardest chain stored.
ManyConditions == 1001

-----------------------------------------------------------------------------
(* Program constants (manager/config.py), as exact rationals.              *)

MAX_CONDITIONS == 100

\* GRAPH_INTEREST = 0.5, so the exponent of factor 1, (1 - 0.5) * 4 + 1, is 3.
FACTOR_1_EXP == 3

\* EASE_IMPACT = 0.3 = 3 / 10
EASE_IMPACT_TENTHS == 3

\* PROBABILITY_EPSILON = 0.0001 = 1 / 10000
PROBABILITY_EPSILON_INV == 10000

\* PROBABILITY_TRESHOLD = 0.75 = 75 / 100
PROBABILITY_TRESHOLD_PCT == 75

\* One unit of probability is 1/SCALE: 3 (the mean of the three factors)
\* times 6^3 (chains of up to 3 nodes, cubed) times 1000 (factor 2).
SCALE == 3 * 216 * 1000

\* Python's None and SQL's NULL in a column that holds an identifier.
NULL == 0

-----------------------------------------------------------------------------
(* Techniques and alerts.                                                  *)

T1 == <<"T", "1">>
T2 == <<"T", "2">>
T3 == <<"T", "3">>
T11 == <<"T", "1", ".", "1">>

\* An Alert is the attribute dictionary Alert.from_wazuh builds; two alerts
\* are equal when their attributes are (SimpleNamespace equality).
\* has_mitre is hasattr(alert, 'rule_mitre_ids').
MkAlert(rid, has, ids) ==
    [rule_id |-> rid, has_mitre |-> has, rule_mitre_ids |-> ids]

Alerts ==
    { MkAlert(1, TRUE, <<T1>>),
      MkAlert(2, TRUE, <<T1>>),
      MkAlert(1, TRUE, <<T2>>),
      MkAlert(1, TRUE, <<T3>>),
      MkAlert(1, TRUE, <<T1, T2>>),
      MkAlert(1, FALSE, <<>>) }

NoAlert == MkAlert(0, FALSE, <<>>)

Range(s) == { s[i] : i \in DOMAIN s }

\* Alert.techniques
techniques(alert) ==
    IF ~alert.has_mitre THEN <<>> ELSE alert.rule_mitre_ids

-----------------------------------------------------------------------------
(* The stores the engine starts from: the admin API has stored some chains *)
(* and no Attack exists yet.                                               *)

NodeRow(id, p, n, t, cs, ps) ==
    [identifier |-> id, prv |-> p, nxt |-> n, technique |-> t,
     conditions |-> cs, probabilities |-> ps]

\* A stored history whose mean stays above the threshold after one rescoring.
RiskyHistory == <<(SCALE * 95) \div 100, (SCALE * 95) \div 100, (SCALE * 95) \div 100>>

\* One graph [n1(T1), n2(T2)]; n2 carries condition 1.
StoreA(h) ==
    [nodes  |-> <<NodeRow(1, NULL, 2, T1, <<>>, h),
                  NodeRow(2, 1, NULL, T2, <<1>>, <<>>)>>,
     graphs |-> <<1>>]

\* One graph [n1(T1), n2(T2), n3(T3)] without conditions.
StoreB ==
    [nodes  |-> <<NodeRow(1, NULL, 2, T1, <<>>, <<>>),
                  NodeRow(2, 1, 3, T2, <<>>, <<>>),
                  NodeRow(3, 2, NULL, T3, <<>>, <<>>)>>,
     graphs |-> <<1>>]

\* A graph [n1(T1.1), n2(T2)] and a graph of the single node n3(T3).
StoreC ==
    [nodes  |-> <<NodeRow(1, NULL, 2, T11, <<>>, <<>>),
                  NodeRow(2, 1, NULL, T2, <<>>, <<>>),
                  NodeRow(3, NULL, NULL, T3, <<>>, <<>>)>>,
     graphs |-> <<1, 3>>]

Stores == { StoreA(<<>>), StoreA(RiskyHistory), StoreB, StoreC }

\* One graph [n1(T1), n2(T2)] whose first node lists the conditions
\* 1..ManyConditions.
StoreD ==
    [nodes  |-> <<NodeRow(1, NULL, 2, T1, [c \in 1..ManyConditions |-> c], <<>>),
                  NodeRow(2, 1, NULL, T2, <<>>, <<>>)>>,
     graphs |-> <<1>>]

-----------------------------------------------------------------------------
(* Helpers.                                                                *)

Min(S) == CHOOSE x \in S : \A y \in S : x <= y
Max(S) == CHOOSE x \in S : \A y \in S : y <= x

RECURSIVE SortedSeq(_)
SortedSeq(S) ==
    IF S = {} THEN <<>> ELSE <<Min(S)>> \o SortedSeq(S \ {Min(S)})

RECURSIVE Sum(_)
Sum(s) == IF s = <<>> THEN 0 ELSE Head(s) + Sum(Tail(s))

RECURSIVE Pow(_, _)
Pow(b, e) == IF e = 0 THEN 1 ELSE b * Pow(b, e - 1)

Abs(x) == IF x < 0 THEN 0 - x ELSE x

IndexOf(s, x) == CHOOSE i \in DOMAIN s : s[i] = x

-----------------------------------------------------------------------------
(* SQLite's LIKE: % matches any run of characters, _ any one character,    *)
(* and ASCII letters match regardless of case.                             *)

Lower(c) == IF c = "T" THEN "t" ELSE c

RECURSIVE LikeMatch(_, _)
LikeMatch(p, s) ==
    IF p = <<>> THEN s = <<>>
    ELSE IF Head(p) = "%"
         THEN LikeMatch(Tail(p), s) \/ (s # <<>> /\ LikeMatch(p, Tail(s)))
         ELSE /\ s # <<>>
              /\ (Head(p) = "_" \/ Lower(Head(p)) = Lower(Head(s)))
              /\ LikeMatch(Tail(p), Tail(s))

\* column LIKE '%attack%'
LikeContains(column, attack) == LikeMatch(<<"%">> \o attack \o <<"%">>, column)

-----------------------------------------------------------------------------
(* The stored form of Attack.context: a JSON object whose keys are strings *)
(* (json.dumps writes an integer key as its decimal string) and whose      *)
(* values are serialised alerts.                                           *)

Digits == <<"0", "1", "2", "3", "4", "5", "6", "7", "8", "9">>

RECURSIVE IntToStr(_)
IntToStr(n) ==
    IF n < 10 THEN <<Digits[n + 1]>>
    ELSE IntToStr(n \div 10) \o <<Digits[(n % 10) + 1]>>

\* str.isdigit
isdigit(k) == k # <<>> /\ \A i \in DOMAIN k : k[i] \in Range(Digits)

RECURSIVE StrToInt(_)
StrToInt(k) ==
    IF k = <<>> THEN 0
    ELSE 10 * StrToInt(SubSeq(k, 1, Len(k) - 1))
         + ((CHOOSE d \in 1..10 : Digits[d] = k[Len(k)]) - 1)

\* Alert.serialize / Alert.deserialize: the JSON text of the attribute
\* dictionary, and the Alert rebuilt from it.
serialize(alert) == [json |-> alert]
deserialize(text) == text.json

EmptyContext == [n \in {} |-> NoAlert]

\* Attack.get_context_as_json, for a context keyed by node identifiers.
get_context_as_json(context) ==
    [k \in { IntToStr(n) : n \in DOMAIN context } |->
        serialize(context[CHOOSE n \in DOMAIN context : IntToStr(n) = k])]

\* Attack.set_context_from_json, for a stored object whose keys are digits.
set_context_from_json(text) ==
    LET keys == { k \in DOMAIN text : isdigit(k) } IN
    [n \in { StrToInt(k) : k \in keys } |->
        deserialize(text[CHOOSE k \in keys : StrToInt(k) = n])]

-----------------------------------------------------------------------------
(* Attack graphs in memory.  A chain is the sequence of node identifiers   *)
(* retrieve_full_graph links with then(); each loaded Attack owns a copy.  *)

\* StateManager.retrieve_full_graph: follow the nxt column from the initial
\* node until it is NULL or names no row.
RECURSIVE retrieve_full_graph(_, _, _)
retrieve_full_graph(tbl, n, seen) ==
    IF n = NULL \/ n \notin DOMAIN tbl \/ n \in seen THEN <<>>
    ELSE <<n>> \o retrieve_full_graph(tbl, tbl[n].nxt, seen \cup {n})

\* A successor lookup that does not stop at the end of the chain.
nxt_past_end(chain, n) == n + 1

\* AttackNode.nxt of node n of a chain
nxt(chain, n) ==
    IF IndexOf(chain, n) = Len(chain) THEN NULL ELSE chain[IndexOf(chain, n) + 1]

\* AttackNode.all_before / all_after / all
all_before(chain, n) == { chain[i] : i \in 1..(IndexOf(chain, n) - 1) }
all_after(chain, n) == { chain[i] : i \in (IndexOf(chain, n) + 1)..Len(chain) }
all(chain, n) == all_before(chain, n) \cup {n} \cup all_after(chain, n)

\* The Attack object: attack_graph is the chain whose first node is
\* attack_front.first().
Attack(id, chain, front, context) ==
    [identifier |-> id, attack_graph |-> chain, attack_front |-> front,
     context |-> context, is_complete |-> FALSE]

\* A row of the table Attacks.
AttackRow(id, graph, front, context) ==
    [identifier |-> id, attack_graph |-> graph, attack_front |-> front,
     context |-> context]

\* StateManager._row_to_attack succeeds: the recorded front is found walking
\* the graph's chain (otherwise it raises InvalidDatabaseStateError).
row_loads(row) ==
    /\ row.attack_graph \in DOMAIN graphs
    /\ graphs[row.attack_graph] \in DOMAIN nodes
    /\ row.attack_front \in Range(retrieve_full_graph(nodes, graphs[row.attack_graph], {}))

\* StateManager._row_to_attack
row_to_attack(row) ==
    Attack(row.identifier,
           retrieve_full_graph(nodes, graphs[row.attack_graph], {}),
           row.attack_front,
           set_context_from_json(row.context))

\* StateManager.retrieve_attacks: the rows in row-id order.
retrieve_attacks(rows) ==
    LET ids == SortedSeq({ r.identifier : r \in rows }) IN
    [i \in DOMAIN ids |-> row_to_attack(CHOOSE r \in rows : r.identifier = ids[i])]

-----------------------------------------------------------------------------
(* Triggering.                                                             *)

\* Alert.triggers
triggers(alert, n) == nodes[n].technique \in Range(techniques(alert))

\* An entry of an args dict: under key, the name of an alert attribute (a
\* str) or a list of such names.
Arg(key, is_str, names) == [key |-> key, is_str |-> is_str, names |-> names]

\* Condition.args of the stored conditions.  Conditions 2 and 3 are the ones
\* workflows list; every other condition has no args.
ConditionArgs(c) ==
    IF c = 2 THEN <<Arg("ids", TRUE, <<"rule_mitre_ids">>)>>
    ELSE IF c = 3 THEN <<Arg("rule", TRUE, <<"rule_id">>),
                         Arg("ip", FALSE, <<"agent_ip", "rule_mitre_ids">>)>>
    ELSE <<>>

\* hasattr(alert, name) on the alerts of the model
hasattr(alert, name) ==
    \/ name = "rule_id"
    \/ name = "rule_mitre_ids" /\ alert.has_mitre

\* A parameters() that leaves out what the alert lacks and never aborts.
parameters_skips_absent(args, alert) ==
    [none |-> FALSE,
     ret  |-> { <<args[i].key, args[i].names[k]>> : i \in DOMAIN args, k \in 1..1 }]

\* Condition.parameters: None when the alert lacks the attribute of a str
\* entry or every attribute of a list entry; otherwise each key bound to
\* the first attribute the alert has.
parameters(args, alert) ==
    IF \E i \in DOMAIN args : \A k \in DOMAIN args[i].names : ~hasattr(alert, args[i].names[k])
    THEN [none |-> TRUE, ret |-> {}]
    ELSE [none |-> FALSE,
          ret  |-> { <<args[i].key,
                       args[i].names[Min({ k \in DOMAIN args[i].names :
                                              hasattr(alert, args[i].names[k]) })]>> :
                     i \in DOMAIN args }]

\* The function the macro prepare-function of manager.conditions builds from
\* a condition's check, applied to the parameters: without parameters it is
\* false and asks nothing; otherwise it is the check's ISIM query, and false
\* when the query fails.
prepare_function(c, p) ==
    IF p.none THEN [met |-> FALSE, queried |-> FALSE]
    ELSE [met |-> IF isim_down THEN FALSE ELSE c \in isim, queried |-> TRUE]

\* Condition.is_met: the condition's check, run against the ISIM.
is_met(c, alert) == prepare_function(c, parameters(ConditionArgs(c), alert)).met

\* A trigger test that is satisfied by the technique or by the conditions.
is_triggered_either(n, alert) ==
    \/ triggers(alert, n)
    \/ \A i \in DOMAIN nodes[n].conditions : is_met(nodes[n].conditions[i], alert)

\* AttackNode.is_triggered
is_triggered(n, alert) ==
    /\ triggers(alert, n)
    /\ \A i \in DOMAIN nodes[n].conditions : is_met(nodes[n].conditions[i], alert)

\* An advance test that looks at the technique only.
advanced_by_technique_only(attack, alert) == triggers(alert, attack.attack_front)

\* Attack.advanced_by
advanced_by(attack, alert) == is_triggered(attack.attack_front, alert)

-----------------------------------------------------------------------------
(* StateManager.advance: returns the table and the Attack object after it. *)

\* An advance that stores the context and leaves the row's front in place.
advance_keeps_front(rows, attack, alert) ==
    LET node == attack.attack_front
        context == [n \in DOMAIN attack.context \cup {node} |->
                       IF n = node THEN alert ELSE attack.context[n]]
        stored == [attack EXCEPT !.context = context]
    IN  IF nxt(attack.attack_graph, node) # NULL
        THEN [rows |-> { IF r.identifier = attack.identifier
                         THEN [r EXCEPT !.context = get_context_as_json(context)]
                         ELSE r : r \in rows },
              attack |-> stored]
        ELSE [rows |-> { r \in rows : r.identifier # attack.identifier },
              attack |-> [stored EXCEPT !.is_complete = TRUE]]

\* An advance that stores the new alert alone, without the alerts of the
\* nodes passed earlier.
advance_drops_context(rows, attack, alert) ==
    LET node == attack.attack_front
        context == [n \in {node} |-> alert]
        stored == [attack EXCEPT !.context = context]
    IN  IF nxt(attack.attack_graph, node) # NULL
        THEN [rows |-> { IF r.identifier = attack.identifier
                         THEN [r EXCEPT !.attack_front = nxt(attack.attack_graph, node),
                                        !.context = get_context_as_json(context)]
                         ELSE r : r \in rows },
              attack |-> stored]
        ELSE [rows |-> { r \in rows : r.identifier # attack.identifier },
              attack |-> [stored EXCEPT !.is_complete = TRUE]]

\* An advance that moves the row's front past the successor too when the
\* alert lists the successor's technique.
advance_through(rows, attack, alert) ==
    LET node == attack.attack_front
        succ == nxt(attack.attack_graph, node)
        context == [n \in DOMAIN attack.context \cup {node} |->
                       IF n = node THEN alert ELSE attack.context[n]]
        stored == [attack EXCEPT !.context = context]
    IN  IF succ # NULL
        THEN [rows |-> { IF r.identifier = attack.identifier
                         THEN [r EXCEPT !.attack_front =
                                          IF triggers(alert, succ)
                                             /\ nxt(attack.attack_graph, succ) # NULL
                                          THEN nxt(attack.attack_graph, succ) ELSE succ,
                                        !.context = get_context_as_json(context)]
                         ELSE r : r \in rows },
              attack |-> stored]
        ELSE [rows |-> { r \in rows : r.identifier # attack.identifier },
              attack |-> [stored EXCEPT !.is_complete = TRUE]]

\* StateManager.advance
advance(rows, attack, alert) ==
    LET node == attack.attack_front
        context == [n \in DOMAIN attack.context \cup {node} |->
                       IF n = node THEN alert ELSE attack.context[n]]
        stored == [attack EXCEPT !.context = context]
    IN  IF nxt(attack.attack_graph, node) # NULL
        THEN [rows |-> { IF r.identifier = attack.identifier
                         THEN [r EXCEPT !.attack_front = nxt(attack.attack_graph, node),
                                        !.context = get_context_as_json(context)]
                         ELSE r : r \in rows },
              attack |-> stored]
        ELSE [rows |-> { r \in rows : r.identifier # attack.identifier },
              attack |-> [stored EXCEPT !.is_complete = TRUE]]

\* update, step 2: every loaded attack its front is triggered for advances.
RECURSIVE advance_loop(_, _, _, _)
advance_loop(rows, state, i, alert) ==
    IF i > Len(state) THEN [rows |-> rows, state |-> state, advanced |-> {}]
    ELSE IF advanced_by(state[i], alert)
         THEN LET a == advance(rows, state[i], alert)
                  rest == advance_loop(a.rows, [state EXCEPT ![i] = a.attack], i + 1, alert)
              IN  [rest EXCEPT !.advanced = @ \cup {state[i].identifier}]
         ELSE advance_loop(rows, state, i + 1, alert)

-----------------------------------------------------------------------------
(* Admitting new attacks.                                                  *)

\* StateManager.already_tracked
already_tracked(alert, attack) ==
    \E n \in all(attack.attack_graph, attack.attack_graph[1]) :
        n \in DOMAIN attack.context /\ attack.context[n] = alert

\* The graphs whose initial node's technique is LIKE '%t%' for a technique t
\* of the alert (query_retrieve).
potential_matches(alert) ==
    { g \in DOMAIN graphs :
        /\ graphs[g] \in DOMAIN nodes
        /\ \E i \in DOMAIN techniques(alert) :
              LikeContains(nodes[graphs[g]].technique, techniques(alert)[i]) }

\* StateManager.retrieve_new_graphs: the initial nodes of the eligible
\* graphs, in the order the two queries yield them.
retrieve_new_graphs(rows, alert) ==
    IF Len(techniques(alert)) = 0 THEN <<>>
    ELSE LET no_attacks ==
                 SortedSeq({ g \in potential_matches(alert) :
                               \A r \in rows : r.attack_graph # g })
             with_attacks ==
                 SelectSeq(retrieve_attacks({ r \in rows :
                                                r.attack_graph \in potential_matches(alert) }),
                           LAMBDA attack : ~already_tracked(alert, attack))
         IN  [i \in DOMAIN no_attacks |-> graphs[no_attacks[i]]]
             \o [i \in DOMAIN with_attacks |-> with_attacks[i].attack_graph[1]]

\* StateManager.start_attack: insert a row whose front is the initial node.
start_attack(rows, rowid, node) ==
    LET graph == Max({ g \in DOMAIN graphs : graphs[g] = node })
        chain == retrieve_full_graph(nodes, node, {})
    IN  [rows |-> rows \cup {AttackRow(rowid + 1, graph, node, get_context_as_json(EmptyContext))},
         attack |-> Attack(rowid + 1, chain, node, EmptyContext),
         lastrowid |-> rowid + 1]

\* An admit step that starts the attacks and does not advance them.
RECURSIVE admit_loop_no_advance(_, _, _, _, _, _)
admit_loop_no_advance(rows, state, rowid, new_attack_graphs, i, alert) ==
    IF i > Len(new_attack_graphs)
    THEN [rows |-> rows, state |-> state, lastrowid |-> rowid]
    ELSE LET s == start_attack(rows, rowid, new_attack_graphs[i])
         IN  admit_loop_no_advance(s.rows, Append(state, s.attack), s.lastrowid,
                                   new_attack_graphs, i + 1, alert)

\* update, step 1: start and advance an attack for every graph returned.
RECURSIVE admit_loop(_, _, _, _, _, _)
admit_loop(rows, state, rowid, new_attack_graphs, i, alert) ==
    IF i > Len(new_attack_graphs)
    THEN [rows |-> rows, state |-> state, lastrowid |-> rowid]
    ELSE LET s == start_attack(rows, rowid, new_attack_graphs[i])
             a == advance(s.rows, s.attack, alert)
         IN  admit_loop(a.rows, Append(state, a.attack), s.lastrowid,
                        new_attack_graphs, i + 1, alert)

-----------------------------------------------------------------------------
(* Scoring.  Probabilities are integers in units of 1/SCALE.               *)

\* AttackNode.probability
probability(history) == IF Len(history) > 0 THEN history[Len(history)] ELSE 0

\* A factor 1 that follows the share of the chain still ahead.
factor_1_of_rest(chain, n) ==
    (SCALE * Pow(Cardinality(all_after(chain, n)), FACTOR_1_EXP))
        \div Pow(Cardinality(all_before(chain, n)) + 1 + Cardinality(all_after(chain, n)),
                 FACTOR_1_EXP)

\* AttackNode._factor_1
factor_1(chain, n) ==
    (SCALE * Pow(Cardinality(all_before(chain, n)), FACTOR_1_EXP))
        \div Pow(Cardinality(all_before(chain, n)) + 1 + Cardinality(all_after(chain, n)),
                 FACTOR_1_EXP)

\* AttackNode._factor_2
factor_2(chain, n) ==
    (Sum([i \in DOMAIN chain |-> Len(nodes[chain[i]].conditions)])
        * EASE_IMPACT_TENTHS * SCALE) \div (MAX_CONDITIONS * 10)

\* A factor 3 that counts every condition as met.
factor_3_counts_all(n, alert) == SCALE

\* factor_3 of AttackNode.update_probability
factor_3(n, alert) ==
    IF Len(nodes[n].conditions) = 0 THEN SCALE
    ELSE (SCALE * Cardinality({ i \in DOMAIN nodes[n].conditions :
                                  is_met(nodes[n].conditions[i], alert) }))
             \div Len(nodes[n].conditions)

\* A new probability that adds the factors up and takes no mean.
new_probability_sum(chain, n, alert) ==
    factor_1(chain, n) + factor_2(chain, n) + factor_3(n, alert)

\* new of AttackNode.update_probability
new_probability(chain, n, alert) ==
    (factor_1(chain, n) + factor_2(chain, n) + factor_3(n, alert)) \div 3

\* An update_probability that leaves an empty history empty.
update_probability_skips_first(history, chain, n, alert) ==
    IF Len(history) = 0
       \/ Abs(probability(history) - new_probability(chain, n, alert))
              < (SCALE + PROBABILITY_EPSILON_INV - 1) \div PROBABILITY_EPSILON_INV
    THEN history
    ELSE Append(history, new_probability(chain, n, alert))

\* An update_probability that appends whatever the change is.
update_probability_always(history, chain, n, alert) ==
    Append(history, new_probability(chain, n, alert))

\* AttackNode.update_probability: the history afterwards; it returns true
\* exactly when the history grew.
update_probability(history, chain, n, alert) ==
    \* fabs(old - new) < epsilon, with epsilon = SCALE / PROBABILITY_EPSILON_INV units
    IF Abs(probability(history) - new_probability(chain, n, alert))
           < (SCALE + PROBABILITY_EPSILON_INV - 1) \div PROBABILITY_EPSILON_INV
    THEN history
    ELSE Append(history, new_probability(chain, n, alert))

\* update, step 3: rescore every node of every attack of the state and
\* store the histories that grew.  Every Attack object holds its own copy
\* of its chain, read from the same rows, so the copies of a node agree.
rescore(state, alert) ==
    [n \in DOMAIN nodes |->
        IF \E i \in DOMAIN state : n \in all(state[i].attack_graph, state[i].attack_front)
        THEN LET chain == (CHOOSE a \in Range(state) :
                              n \in all(a.attack_graph, a.attack_front)).attack_graph
             IN  [nodes[n] EXCEPT !.probabilities = update_probability(@, chain, n, alert)]
        ELSE nodes[n]]

\* AttackNode.historically_risky, of a non-empty history
historically_risky(history) ==
    Sum(history) * 100 > PROBABILITY_TRESHOLD_PCT * SCALE * Len(history)

\* The evaluation of one attack at the end of update.  tbl holds the
\* histories after rescoring.  raised names the exception that ends it.
evaluate(attack, alert, tbl) ==
    LET chain == attack.attack_graph
        front == attack.attack_front
    IN  [past    |-> { n \in all_before(chain, front) :
                         /\ Len(tbl[n].probabilities) > 0
                         /\ historically_risky(tbl[n].probabilities) },
         present |-> IF alert.has_mitre /\ nodes[front].technique \in Range(alert.rule_mitre_ids)
                     THEN {front} ELSE {},
         future  |-> { n \in all_after(chain, front) :
                         probability(tbl[n].probabilities) * 100
                             > PROBABILITY_TRESHOLD_PCT * SCALE },
         raised  |-> IF \E n \in all_before(chain, front) : Len(tbl[n].probabilities) = 0
                     THEN "TypeError"
                     ELSE IF ~alert.has_mitre THEN "AttributeError" ELSE "none"]

\* The evaluations up to and including the first that raises.
RECURSIVE evaluate_loop(_, _, _, _)
evaluate_loop(state, i, alert, tbl) ==
    IF i > Len(state) THEN <<>>
    ELSE IF evaluate(state[i], alert, tbl).raised # "none"
         THEN <<evaluate(state[i], alert, tbl)>>
         ELSE <<evaluate(state[i], alert, tbl)>> \o evaluate_loop(state, i + 1, alert, tbl)

-----------------------------------------------------------------------------
(* Workflows: the table Workflows, the selection of a workflow for a node  *)
(* and its execution.                                                      *)

\* StateManager._mkstr: the elements joined by single spaces.
RECURSIVE mkstr(_)
mkstr(list) ==
    IF list = <<>> THEN <<>>
    ELSE IF Len(list) = 1 THEN list[1]
    ELSE list[1] \o <<" ">> \o mkstr(Tail(list))

\* A row of the table Workflows as _row_to_workflow reads it.
WorkflowRow(id, effective_attacks, cost, args, conditions) ==
    [identifier |-> id, effective_attacks |-> effective_attacks, cost |-> cost,
     workflow_arguments |-> args, conditions |-> conditions]

\* The table Workflows the admin API has stored, row by identifier.
Workflows ==
    <<WorkflowRow(1, <<T11>>, 1, <<Arg("ip", TRUE, <<"agent_ip">>)>>, <<>>),
      WorkflowRow(2, <<T1>>, 5, <<Arg("ip", TRUE, <<"agent_ip">>)>>, <<>>),
      WorkflowRow(3, <<T2>>, 5,
                  <<Arg("ids", FALSE, <<"agent_ip", "rule_mitre_ids">>)>>, <<2, 3>>),
      WorkflowRow(4, <<T2>>, 5, <<>>, <<>>)>>

\* StateManager.retrieve_applicable_workflows: the identifiers of the rows
\* whose effective_attacks column is LIKE %attack%, in row order.
retrieve_applicable_workflows(attack) ==
    LET applicable(w) == LikeContains(mkstr(Workflows[w].effective_attacks), attack)
    IN  SelectSeq([w \in DOMAIN Workflows |-> w], applicable)

\* workflows.locate: of the applicable workflows the one of least cost, the
\* lowest identifier among equals; NULL when there is none.
locate(node) ==
    LET found == Range(retrieve_applicable_workflows(nodes[node].technique))
    IN  IF found = {} THEN NULL
        ELSE Min({ w \in found : \A v \in found : Workflows[w].cost <= Workflows[v].cost })

\* Workflow.generate_request_json: None when the alert lacks the attribute
\* of a str argument or every attribute of a list argument.
generate_request_json(w, alert) ==
    LET args == Workflows[w].workflow_arguments
    IN  IF \E i \in DOMAIN args :
              \A k \in DOMAIN args[i].names : ~hasattr(alert, args[i].names[k])
        THEN [none |-> TRUE, ret |-> {}]
        ELSE [none |-> FALSE,
              ret  |-> { <<args[i].key,
                           args[i].names[Min({ k \in DOMAIN args[i].names :
                                                  hasattr(alert, args[i].names[k]) })]>> :
                         i \in DOMAIN args }]

\* An is_executable that is content with one condition met.
is_executable_any(w, alert) ==
    \/ Workflows[w].conditions = <<>>
    \/ \E i \in DOMAIN Workflows[w].conditions : is_met(Workflows[w].conditions[i], alert)

\* Workflow.is_executable
is_executable(w, alert) ==
    \A i \in DOMAIN Workflows[w].conditions : is_met(Workflows[w].conditions[i], alert)

\* An execute that posts once more after an answer other than 200.
execute_again(w, alert, status) ==
    [requests |-> IF status = 200
                  THEN <<[url |-> w, json |-> generate_request_json(w, alert)]>>
                  ELSE <<[url |-> w, json |-> generate_request_json(w, alert)],
                         [url |-> w, json |-> generate_request_json(w, alert)]>>,
     executed |-> status = 200]

\* Workflow.execute: the requests it posts and self.executed afterwards.
execute(w, alert, status) ==
    [requests |-> <<[url |-> w, json |-> generate_request_json(w, alert)]>>,
     executed |-> status = 200]

\* mitigate_attack_immediately: the workflow located, the requests sent and
\* the workflow's executed attribute when it returns.
mitigate_attack_immediately(node, alert, status) ==
    LET wf == locate(node)
    IN  IF wf = NULL THEN [wf |-> NULL, requests |-> <<>>, executed |-> FALSE]
        ELSE IF ~is_executable(wf, alert)
             THEN [wf |-> wf, requests |-> <<>>, executed |-> FALSE]
             ELSE [wf |-> wf, requests |-> execute(wf, alert, status).requests,
                   executed |-> execute(wf, alert, status).executed]

NoDispatch ==
    [node |-> NULL, alert |-> NoAlert, status |-> 200, wf |-> NULL,
     requests |-> <<>>, executed |-> FALSE, queried |-> {}]

-----------------------------------------------------------------------------
(* The state machine.                                                      *)

\* A free slot of the event loop.  after: the tasks that had ended when
\* this one was added; wrote: the task has written on the connection since
\* the connection's last commit.
IdleTask ==
    [pc |-> "idle", alert |-> NoAlert, after |-> {},
     base |-> [rows |-> {}, lastrowid |-> 0], state |-> <<>>, mem |-> <<>>,
     snap |-> <<>>, new_attack_graphs |-> <<>>, i |-> 0, advanced |-> {},
     started |-> {},
     wrote |-> FALSE]

NoTasks == [t \in 1..MaxTasks |-> IdleTask]

\* The managers server.py sets before the server starts: initialize_neo4j
\* and initialize_sqlite each run once.
Started == 1

\* No function has been called directly.
NoCall == [call |-> "none", args |-> <<>>, raised |-> "none", ret |-> NULL]

NoUpdate ==
    [alert |-> NoAlert, isim |-> {}, isim_down |-> FALSE, state |-> <<>>, advanced |-> {},
     new_attack_graphs |-> <<>>, evaluated |-> <<>>, raised |-> "none"]

Init ==
    /\ \E store \in Stores : nodes = store.nodes /\ graphs = store.graphs
    /\ attacks = {}
    /\ lastrowid = 0
    /\ isim = {}
    /\ last = NoUpdate
    /\ durable = [attacks |-> attacks, nodes |-> nodes]
    /\ tasks = NoTasks
    /\ isim_down = FALSE
    /\ dispatch = NoDispatch
    /\ heap = <<>>
    /\ STATE_MANAGER = Started /\ ISIM_MANAGER = Started
    /\ returned = NoCall

\* manager.state.update(alert), run alone from the load of the state to its
\* return: advance, admit, rescore, commit, evaluate.
UpdateUpTo(alert, rowids) ==
    /\ \A r \in attacks : row_loads(r)
    /\ \E adv \in {advance_loop(attacks, retrieve_attacks(attacks), 1, alert)} :
       \E new_attack_graphs \in {retrieve_new_graphs(adv.rows, alert)} :
       \E adm \in {admit_loop(adv.rows, adv.state, lastrowid, new_attack_graphs, 1, alert)} :
       \E tbl \in {rescore(adm.state, alert)} :
       \E evaluated \in {evaluate_loop(adm.state, 1, alert, tbl)} :
          /\ adm.lastrowid <= rowids
          /\ \A n \in DOMAIN tbl : Len(tbl[n].probabilities) <= MaxHist
          /\ attacks' = adm.rows
          /\ lastrowid' = adm.lastrowid
          /\ nodes' = tbl
          /\ last' = [alert |-> alert, isim |-> isim, isim_down |-> isim_down,
                      state |-> adm.state, advanced |-> adv.advanced,
                      new_attack_graphs |-> new_attack_graphs,
                      evaluated |-> evaluated,
                      raised |-> IF evaluated = <<>> THEN "none"
                                 ELSE evaluated[Len(evaluated)].raised]
          /\ durable' = [attacks |-> adm.rows, nodes |-> tbl]
          /\ UNCHANGED <<STATE_MANAGER, ISIM_MANAGER, returned, dispatch, graphs, isim, tasks, isim_down, heap>>

\* update(alert) while the table Attacks has handed out at most MaxId row
\* identifiers.
Update(alert) == UpdateUpTo(alert, MaxId)

\* The ISIM changes under the engine: the check of condition c starts or
\* stops being satisfied.
IsimChange(c) ==
    /\ \/ \E n \in DOMAIN nodes : c \in Range(nodes[n].conditions)
       \/ \E w \in DOMAIN Workflows : c \in Range(Workflows[w].conditions)
    /\ isim' = IF c \in isim THEN isim \ {c} ELSE isim \cup {c}
    /\ UNCHANGED <<STATE_MANAGER, ISIM_MANAGER, returned, dispatch, nodes, graphs, attacks, lastrowid, last,
                   durable, tasks, isim_down, heap>>

Ingest == \E alert \in Alerts : Update(alert)

Environment == \E c \in {1} : IsimChange(c)

Next == Ingest \/ Environment

Spec == Init /\ [][Next]_vars

\* The engine on the store whose chain has many conditions.
InitEase ==
    /\ nodes = StoreD.nodes /\ graphs = StoreD.graphs
    /\ attacks = {}
    /\ lastrowid = 0
    /\ isim = {}
    /\ last = NoUpdate
    /\ durable = [attacks |-> attacks, nodes |-> nodes]
    /\ tasks = NoTasks
    /\ isim_down = FALSE
    /\ dispatch = NoDispatch
    /\ heap = <<>>
    /\ STATE_MANAGER = Started /\ ISIM_MANAGER = Started
    /\ returned = NoCall

SpecEase == InitEase /\ [][Next]_vars

\* mitigate_attack_immediately(attack, node, alert); status is the answer of
\* the endpoint, should a request reach it.
MitigateAttackImmediately(node, alert, status) ==
    /\ \E m \in {mitigate_attack_immediately(node, alert, status)} :
          dispatch' = [node |-> node, alert |-> alert, status |-> status,
                       wf |-> m.wf, requests |-> m.requests, executed |-> m.executed,
                       queried |-> IF m.wf = NULL THEN {}
                                   ELSE { c \in Range(Workflows[m.wf].conditions) :
                                            prepare_function(c, parameters(ConditionArgs(c), alert)).queried }]
    /\ UNCHANGED <<STATE_MANAGER, ISIM_MANAGER, returned, nodes, graphs, attacks, lastrowid, isim, last,
                   durable, tasks, isim_down, heap>>

\* The alerts the workflows are tried on: one with rule_mitre_ids and one
\* without.
MitigatedAlerts == { MkAlert(1, TRUE, <<T1, T2>>), MkAlert(1, FALSE, <<>>) }

\* The endpoint answers 200 or 500.
Mitigation ==
    \E node \in DOMAIN nodes : \E alert \in MitigatedAlerts : \E status \in {200, 500} :
        MitigateAttackImmediately(node, alert, status)

InitMitigate == Init /\ nodes = StoreB.nodes

\* Alerts are ingested, the ISIM results the conditions of the workflows
\* depend on change, and nodes are mitigated.
NextMitigate ==
    \/ \E alert \in MitigatedAlerts : Update(alert)
    \/ \E c \in 2..3 : IsimChange(c)
    \/ Mitigation

SpecMitigate == InitMitigate /\ [][NextMitigate]_vars

-----------------------------------------------------------------------------
(* Alert-handling tasks on the event loop.  handle_message adds a task per *)
(* message; a task runs update(alert) and yields to the loop at its awaits *)
(* on the shared connection.  pc names the await a task stands before.     *)

\* The alerts the bus delivers.
AsyncAlerts ==
    { MkAlert(1, TRUE, <<T1, T2>>),
      MkAlert(2, TRUE, <<T1>>),
      MkAlert(3, TRUE, <<T1, T2>>) }

InFlight ==
    { t \in DOMAIN tasks : tasks[t].pc \notin {"idle", "done", "cancelled", "failed"} }

\* The probability histories a task reads into the node objects of a chain.
Histories(tbl, chain) == [n \in Range(chain) |-> tbl[n].probabilities]

\* update, step 3, on the node objects a task holds: every Attack of the
\* state rescores its own copies and stores the histories that grew.
RECURSIVE rescore_copies(_, _, _, _, _)
rescore_copies(tbl, state, mem, i, alert) ==
    IF i > Len(state) THEN tbl
    ELSE LET chain == state[i].attack_graph
             grown == { n \in Range(chain) :
                          update_probability(mem[i][n], chain, n, alert) # mem[i][n] }
         IN  rescore_copies(
                 [n \in DOMAIN tbl |->
                    IF n \in grown
                    THEN [tbl[n] EXCEPT !.probabilities =
                                           update_probability(mem[i][n], chain, n, alert)]
                    ELSE tbl[n]],
                 state, mem, i + 1, alert)

\* handle_message: app.add_task(handle_alert(alert)).  Slots are taken in
\* order, one message each.  base is the table Attacks the task finds; no
\* run of update that ran alone is the last one any more.
Deliver(t, alert) ==
    /\ tasks[t].pc = "idle"
    /\ \A u \in DOMAIN tasks : u < t => tasks[u].pc # "idle"
    /\ tasks' = [tasks EXCEPT ![t] =
                    [IdleTask EXCEPT !.pc = "load", !.alert = alert,
                                     !.base = [rows |-> attacks, lastrowid |-> lastrowid],
                                     !.after = { u \in DOMAIN tasks :
                                                   tasks[u].pc \in {"done", "cancelled",
                                                                    "failed"} }]]
    /\ last' = NoUpdate
    /\ UNCHANGED <<STATE_MANAGER, ISIM_MANAGER, returned, dispatch, nodes, graphs, attacks, lastrowid, isim,
                   durable, isim_down, heap>>

\* state = await retrieve_attacks()
Load(t) ==
    /\ tasks[t].pc = "load"
    /\ \A r \in attacks : row_loads(r)
    /\ \E state \in {retrieve_attacks(attacks)} :
          tasks' = [tasks EXCEPT ![t].pc = "advance",
                                 ![t].state = state,
                                 ![t].mem = [i \in DOMAIN state |->
                                               Histories(nodes, state[i].attack_graph)]]
    /\ UNCHANGED <<STATE_MANAGER, ISIM_MANAGER, returned, dispatch, nodes, graphs, attacks, lastrowid, isim, last,
                   durable, isim_down, heap>>

\* The advance loop over the loaded state.
Advance(t) ==
    /\ tasks[t].pc = "advance"
    /\ \E adv \in {advance_loop(attacks, tasks[t].state, 1, tasks[t].alert)} :
          /\ attacks' = adv.rows
          /\ tasks' = [tasks EXCEPT ![t].pc = "retrieve_new_graphs",
                                    ![t].state = adv.state,
                                    ![t].advanced = adv.advanced,
                                    ![t].wrote = @ \/ adv.advanced # {}]
    /\ UNCHANGED <<STATE_MANAGER, ISIM_MANAGER, returned, dispatch, nodes, graphs, lastrowid, isim, last,
                   durable, isim_down, heap>>

\* new_attack_graphs = await retrieve_new_graphs(alert)
RetrieveNewGraphs(t) ==
    /\ tasks[t].pc = "retrieve_new_graphs"
    /\ \A r \in attacks :
          (Len(techniques(tasks[t].alert)) > 0
             /\ r.attack_graph \in potential_matches(tasks[t].alert)) => row_loads(r)
    /\ \E new_attack_graphs \in {retrieve_new_graphs(attacks, tasks[t].alert)} :
          tasks' = [tasks EXCEPT ![t].pc = IF new_attack_graphs = <<>>
                                           THEN "rescore" ELSE "start_attack",
                                 ![t].new_attack_graphs = new_attack_graphs,
                                 ![t].snap = IF new_attack_graphs = <<>> THEN <<>>
                                             ELSE [n \in DOMAIN nodes |->
                                                     nodes[n].probabilities],
                                 ![t].i = 1]
    /\ UNCHANGED <<STATE_MANAGER, ISIM_MANAGER, returned, dispatch, nodes, graphs, attacks, lastrowid, isim, last,
                   durable, isim_down, heap>>

\* new_attack = await start_attack(graph)
StartAttack(t) ==
    /\ tasks[t].pc = "start_attack"
    /\ \E s \in {start_attack(attacks, lastrowid, tasks[t].new_attack_graphs[tasks[t].i])} :
          /\ s.lastrowid <= MaxId
          /\ attacks' = s.rows
          /\ lastrowid' = s.lastrowid
          /\ tasks' = [tasks EXCEPT
                          ![t].pc = "advance_new",
                          ![t].state = Append(@, s.attack),
                          ![t].mem = Append(@, [n \in Range(s.attack.attack_graph) |->
                                                  tasks[t].snap[n]]),
                          ![t].started = @ \cup {s.attack.identifier},
                          ![t].wrote = TRUE]
    /\ UNCHANGED <<STATE_MANAGER, ISIM_MANAGER, returned, dispatch, nodes, graphs, isim, last, durable, isim_down, heap>>

\* await advance(new_attack, alert); state.append(new_attack)
AdvanceNew(t) ==
    /\ tasks[t].pc = "advance_new"
    /\ \E a \in {advance(attacks, tasks[t].state[Len(tasks[t].state)], tasks[t].alert)} :
          /\ attacks' = a.rows
          /\ tasks' = [tasks EXCEPT
                          ![t].pc = IF tasks[t].i < Len(tasks[t].new_attack_graphs)
                                    THEN "start_attack" ELSE "rescore",
                          ![t].state = [@ EXCEPT ![Len(@)] = a.attack],
                          ![t].i = @ + 1]
    /\ UNCHANGED <<STATE_MANAGER, ISIM_MANAGER, returned, dispatch, nodes, graphs, lastrowid, isim, last,
                   durable, isim_down, heap>>

\* The rescoring loop and its UPDATEs of AttackNodes.  The task's locals
\* are not read by the store after it.
Rescore(t) ==
    /\ tasks[t].pc = "rescore"
    /\ \E tbl \in {rescore_copies(nodes, tasks[t].state, tasks[t].mem, 1, tasks[t].alert)} :
          /\ \A n \in DOMAIN tbl : Len(tbl[n].probabilities) <= MaxHist
          /\ nodes' = tbl
          /\ tasks' = [tasks EXCEPT ![t] =
                          [IdleTask EXCEPT !.pc = "commit",
                                           !.alert = tasks[t].alert,
                                           !.after = tasks[t].after, !.base = tasks[t].base,
                                           !.advanced = tasks[t].advanced,
                                           !.started = tasks[t].started,
                                           !.wrote = tasks[t].wrote \/ tbl # nodes]]
    /\ UNCHANGED <<STATE_MANAGER, ISIM_MANAGER, returned, dispatch, graphs, attacks, lastrowid, isim, last,
                   durable, isim_down, heap>>

\* await connection.commit(): everything written on the connection since
\* its last commit becomes durable, whichever task wrote it.
Commit(t) ==
    /\ tasks[t].pc = "commit"
    /\ durable' = [attacks |-> attacks, nodes |-> nodes]
    /\ tasks' = [u \in DOMAIN tasks |->
                    IF u = t THEN [tasks[u] EXCEPT !.pc = "evaluate", !.wrote = FALSE]
                    ELSE [tasks[u] EXCEPT !.wrote = FALSE]]
    /\ UNCHANGED <<STATE_MANAGER, ISIM_MANAGER, returned, dispatch, nodes, graphs, attacks, lastrowid, isim, last,
                   isim_down, heap>>

\* The evaluation and the mitigation of its nodes; the task ends.
Evaluate(t) ==
    /\ tasks[t].pc = "evaluate"
    /\ tasks' = [tasks EXCEPT ![t].pc = "done"]
    /\ UNCHANGED <<STATE_MANAGER, ISIM_MANAGER, returned, dispatch, nodes, graphs, attacks, lastrowid, isim, last,
                   durable, isim_down, heap>>

\* The task is cancelled at an await before its commit: handle_alert
\* catches CancelledError, logs and returns.  Of the rows it started and the
\* attacks it advanced, the task keeps those no commit has made durable.
Cancel(t) ==
    /\ tasks[t].pc \in {"load", "advance", "retrieve_new_graphs", "start_attack",
                        "advance_new", "rescore", "commit"}
    /\ tasks' = [tasks EXCEPT ![t] =
                    [IdleTask EXCEPT
                        !.pc = "cancelled",
                        !.alert = tasks[t].alert,
                        !.after = tasks[t].after, !.base = tasks[t].base,
                        !.started = { id \in tasks[t].started :
                                        /\ \E r \in attacks : r.identifier = id
                                        /\ \A r \in durable.attacks : r.identifier # id },
                        !.wrote = tasks[t].wrote]]
    /\ UNCHANGED <<STATE_MANAGER, ISIM_MANAGER, returned, dispatch, nodes, graphs, attacks, lastrowid, isim, last,
                   durable, isim_down, heap>>

\* _row_to_attack raises InvalidDatabaseStateError for a row it is given:
\* in retrieve_attacks for any row, in retrieve_new_graphs for a row of a
\* graph the alert may start.  Nothing in update or handle_alert catches
\* it; the task ends with what it wrote still on the connection.
Fail(t) ==
    /\ \/ /\ tasks[t].pc = "load"
          /\ \E r \in attacks : ~row_loads(r)
       \/ /\ tasks[t].pc = "retrieve_new_graphs"
          /\ Len(techniques(tasks[t].alert)) > 0
          /\ \E r \in attacks : /\ r.attack_graph \in potential_matches(tasks[t].alert)
                                /\ ~row_loads(r)
    /\ tasks' = [tasks EXCEPT ![t] =
                    [IdleTask EXCEPT !.pc = "failed",
                                     !.alert = tasks[t].alert,
                                     !.after = tasks[t].after, !.base = tasks[t].base,
                                     !.advanced = tasks[t].advanced,
                                     !.wrote = tasks[t].wrote]]
    /\ UNCHANGED <<STATE_MANAGER, ISIM_MANAGER, returned, dispatch, nodes, graphs, attacks, lastrowid, isim, last,
                   durable, isim_down, heap>>

\* The store is edited from outside the engine while a task is under way
\* and the connection holds no uncommitted write: the front of a row is set
\* to a node that is not in the chain of the row's graph.
Corrupt(id) ==
    /\ InFlight # {}
    /\ attacks = durable.attacks /\ nodes = durable.nodes
    /\ \A r \in attacks : row_loads(r)
    /\ \E r \in attacks :
          /\ r.identifier = id
          /\ attacks' = (attacks \ {r}) \cup {[r EXCEPT !.attack_front = Len(nodes) + 1]}
    /\ durable' = [durable EXCEPT !.attacks = attacks']
    /\ UNCHANGED <<STATE_MANAGER, ISIM_MANAGER, returned, dispatch, nodes, graphs, lastrowid, isim, last, tasks, isim_down, heap>>

TaskStep(t) ==
    \/ Load(t)
    \/ Advance(t)
    \/ RetrieveNewGraphs(t)
    \/ StartAttack(t)
    \/ AdvanceNew(t)
    \/ Rescore(t)
    \/ Commit(t)
    \/ Evaluate(t)
    \/ Fail(t)

\* The alerts of a burst: one rule per task.
Burst == { alert \in AsyncAlerts : alert.rule_id <= MaxTasks }

Bus == \E t \in DOMAIN tasks : \E alert \in Burst : Deliver(t, alert)

Loop == \E t \in DOMAIN tasks : TaskStep(t)

Cancellation == \E t \in DOMAIN tasks : Cancel(t)

InitAsync == Init /\ nodes = StoreB.nodes /\ graphs = StoreB.graphs

Edit == \E id \in 1..MaxId : Corrupt(id)

\* A message that is handled while no other is: its task runs alone.
Alone ==
    /\ \A t \in DOMAIN tasks : tasks[t].pc = "idle"
    /\ \E alert \in AsyncAlerts : Update(alert)

NextAsync == Alone \/ Bus \/ Loop \/ Cancellation \/ Edit

SpecAsync == InitAsync /\ [][NextAsync]_vars

-----------------------------------------------------------------------------
(* handle_alert on the messages of the bus, one at a time, with an ISIM    *)
(* that can be down.                                                       *)

\* A message of the bus: the Wazuh form (rule.id, rule.mitre.id, syscheck)
\* or a flat object whose keys are the Alert attributes.
RawAlert(form, rid, is_list, ids, syscheck) ==
    [form |-> form, rule_id |-> rid, mitre_is_list |-> is_list,
     mitre_ids |-> ids, syscheck |-> syscheck]

RawAlerts ==
    { RawAlert("wazuh", 1, TRUE, <<T1>>, "dict"),
      RawAlert("wazuh", 1, FALSE, <<>>, "absent"),
      RawAlert("wazuh", 1, TRUE, <<T1>>, "str"),
      RawAlert("flat", 1, TRUE, <<T1>>, "absent"),
      RawAlert("flat", 2, TRUE, <<T1>>, "absent"),
      RawAlert("flat", 1, TRUE, <<T2>>, "absent") }

\* Alert.from_wazuh: _set raises for a syscheck that is no dict, _validate
\* for rule_mitre_ids that is no list.
from_wazuh(raw) ==
    IF raw.form # "wazuh" THEN [raised |-> "none", alert |-> MkAlert(0, FALSE, <<>>)]
    ELSE IF raw.syscheck = "str" \/ ~raw.mitre_is_list
         THEN [raised |-> "InvalidAlertError", alert |-> NoAlert]
         ELSE [raised |-> "none", alert |-> MkAlert(raw.rule_id, TRUE, raw.mitre_ids)]

\* Alert(alert) in handle_alert: SimpleNamespace takes the top-level keys of
\* the message as attributes, or raises TypeError where it accepts no
\* positional argument.
parsed_alert(raw) ==
    { [raised |-> "TypeError", alert |-> NoAlert],
      [raised |-> "none",
       alert  |-> IF raw.form = "flat"
                  THEN MkAlert(raw.rule_id, TRUE, raw.mitre_ids)
                  ELSE MkAlert(0, FALSE, <<>>)] }

\* A run of handle_alert that an exception ended before update's commit.
Raised(alert, exception) ==
    [NoUpdate EXCEPT !.alert = alert, !.isim = isim, !.isim_down = isim_down,
                     !.raised = exception]

\* handle_alert(alert), from Alert(alert) to the end of the task.
HandleAlert(raw) ==
    \E parsed \in parsed_alert(raw) :
        \/ /\ parsed.raised # "none"
           /\ last' = Raised(parsed.alert, parsed.raised)
           /\ UNCHANGED <<STATE_MANAGER, ISIM_MANAGER, returned, dispatch, nodes, graphs, attacks, lastrowid, isim,
                          durable, tasks, isim_down, heap>>
        \/ /\ parsed.raised = "none"
           /\ Update(parsed.alert)

\* The ISIM goes down or comes back.
IsimOutage ==
    /\ isim_down' = ~isim_down
    /\ UNCHANGED <<STATE_MANAGER, ISIM_MANAGER, returned, dispatch, nodes, graphs, attacks, lastrowid, isim, last,
                   durable, tasks, heap>>

Message == \E raw \in RawAlerts : HandleAlert(raw)

Isim == IsimOutage \/ Environment

NextFault == Message \/ Isim

InitFault == Init /\ nodes = StoreA(<<>>).nodes /\ graphs = StoreA(<<>>).graphs

SpecFault == InitFault /\ [][NextFault]_vars

-----------------------------------------------------------------------------
(* AttackNode objects and then().  An object is its address in heap; prv   *)
(* and nxt hold addresses, NULL for None.                                  *)

Objects == 1..Len(heap)

\* A cache attribute of an AttackNode: None, or the set it holds.
None == [cached |-> FALSE, nodes |-> {}]

\* AttackNode.__init__ with its keyword arguments prv and nxt
AttackNode(kw_prv, kw_nxt) ==
    [prv |-> kw_prv, nxt |-> kw_nxt,
     _cache_all_before |-> None, _cache_all_after |-> None]

\* AttackNode.then: the heap after self.then(..., prv=prv, nxt=nxt); the new
\* node, which it returns, is the last object of that heap.
then(h, self, kw_prv, kw_nxt) ==
    LET tmp == Len(h) + 1
        created == Append(h, AttackNode(kw_prv, kw_nxt))
        detached == IF created[self].nxt # NULL
                    THEN [created EXCEPT ![created[self].nxt].prv = NULL]
                    ELSE created
        linked == [detached EXCEPT ![tmp].prv = self]
    IN  [linked EXCEPT ![self].nxt = tmp]

\* AttackNode.first / last: the walk along prv / nxt from n.  The walk of
\* the code does not end on a cycle; the model stops it where it closes.
RECURSIVE walk(_, _, _, _)
walk(h, n, link, seen) ==
    IF n = NULL \/ n \in seen THEN <<>>
    ELSE <<n>> \o walk(h, IF link = "nxt" THEN h[n].nxt ELSE h[n].prv, link, seen \cup {n})

first(h, n) == LET w == walk(h, n, "prv", {}) IN w[Len(w)]

\* The nodes the loop of all_before / all_after collects: those on the walk
\* along link from n, n itself left out.
collect(h, n, link) ==
    Range(walk(h, IF link = "nxt" THEN h[n].nxt ELSE h[n].prv, link, {}))

\* The loop of all_before / all_after ends: the walk reaches None.
loop_ends(h, n, link) ==
    LET w == walk(h, n, link, {})
    IN  (IF link = "nxt" THEN h[w[Len(w)]].nxt ELSE h[w[Len(w)]].prv) = NULL

\* The value self._cache_all_before holds after all_before() returned, which
\* is the set all_before() returned.
all_before_of(h, n) ==
    IF h[n]._cache_all_before.cached THEN h[n]._cache_all_before
    ELSE [cached |-> TRUE, nodes |-> collect(h, n, "prv")]

\* The same for all_after() and self._cache_all_after.
all_after_of(h, n) ==
    IF h[n]._cache_all_after.cached THEN h[n]._cache_all_after
    ELSE [cached |-> TRUE, nodes |-> collect(h, n, "nxt")]

\* A test creates a node with the constructor, no links given.
NewNode ==
    /\ Len(heap) < MaxNodes
    /\ heap' = Append(heap, AttackNode(NULL, NULL))
    /\ UNCHANGED <<STATE_MANAGER, ISIM_MANAGER, returned, dispatch, nodes, graphs, attacks, lastrowid, isim, last,
                   durable, tasks, isim_down>>

\* A test calls self.then(...), with or without prv= and nxt=.
Then(self, kw_prv, kw_nxt) ==
    /\ Len(heap) < MaxNodes
    /\ heap' = then(heap, self, kw_prv, kw_nxt)
    /\ UNCHANGED <<STATE_MANAGER, ISIM_MANAGER, returned, dispatch, nodes, graphs, attacks, lastrowid, isim, last,
                   durable, tasks, isim_down>>

ThenCall ==
    \E self \in Objects :
        \E kw_prv \in Objects \cup {NULL} : \E kw_nxt \in Objects \cup {NULL} :
            Then(self, kw_prv, kw_nxt)

\* A test calls n.all_before() where the call returns.
AllBefore(n) ==
    /\ loop_ends(heap, n, "prv")
    /\ heap' = [heap EXCEPT ![n]._cache_all_before = all_before_of(heap, n)]
    /\ UNCHANGED <<STATE_MANAGER, ISIM_MANAGER, returned, dispatch, nodes, graphs, attacks, lastrowid, isim, last,
                   durable, tasks, isim_down>>

\* A test calls n.all_after() where the call returns.
AllAfter(n) ==
    /\ loop_ends(heap, n, "nxt")
    /\ heap' = [heap EXCEPT ![n]._cache_all_after = all_after_of(heap, n)]
    /\ UNCHANGED <<STATE_MANAGER, ISIM_MANAGER, returned, dispatch, nodes, graphs, attacks, lastrowid, isim, last,
                   durable, tasks, isim_down>>

\* The conditions list the o-th object is created with: none for the first
\* object, as in test_factor_2, and o - 1 conditions for the o-th.
conditions_of(o) == [c \in 1..(o - 1) |-> c]

\* AttackNode._factor_2 of object n: the conditions of the nodes all_before()
\* and all_after() return, and its own.
factor_2_of(h, n) ==
    ((Sum([i \in DOMAIN SortedSeq(all_before_of(h, n).nodes) |->
             Len(conditions_of(SortedSeq(all_before_of(h, n).nodes)[i]))])
     + Sum([i \in DOMAIN SortedSeq(all_after_of(h, n).nodes) |->
             Len(conditions_of(SortedSeq(all_after_of(h, n).nodes)[i]))])
     + Len(conditions_of(n)))
        * EASE_IMPACT_TENTHS * SCALE) \div (MAX_CONDITIONS * 10)

\* A test calls n._factor_2() where the call returns: all_before() and
\* all_after() are called and leave their caches set.
Factor2(n) ==
    /\ loop_ends(heap, n, "prv") /\ loop_ends(heap, n, "nxt")
    /\ heap' = [heap EXCEPT ![n]._cache_all_before = all_before_of(heap, n),
                            ![n]._cache_all_after = all_after_of(heap, n)]
    /\ UNCHANGED <<STATE_MANAGER, ISIM_MANAGER, returned, dispatch, nodes, graphs,
                   attacks, lastrowid, isim, last, durable, tasks, isim_down>>

Sets == \E n \in Objects : AllBefore(n) \/ AllAfter(n) \/ Factor2(n)

NextThen == NewNode \/ ThenCall \/ Sets

SpecThen == Init /\ [][NextThen]_vars

-----------------------------------------------------------------------------
(* Direct calls of the store's retrieval functions, on a store an operator *)
(* may have written from outside the engine.                               *)

\* StateManager.retrieve_full_graph(initial_node, attack_identifier): the
\* node returned (the attack's front) or the exception raised.
retrieve_full_graph_of_attack(rows, tbl, initial_node, attack_identifier) ==
    LET chain == retrieve_full_graph(tbl, initial_node, {})
        Error == [raised |-> "InvalidDatabaseStateError", ret |-> NULL]
    IN  IF \A r \in rows : r.identifier # attack_identifier THEN Error
        ELSE IF initial_node \notin DOMAIN tbl THEN Error
        ELSE IF tbl[initial_node].nxt = NULL
             THEN [raised |-> "none", ret |-> initial_node]
        ELSE IF tbl[chain[Len(chain)]].nxt # NULL
             THEN [raised |-> "none", ret |-> initial_node]
        ELSE IF (CHOOSE r \in rows : r.identifier = attack_identifier).attack_front
                    \in Range(chain)
             THEN [raised |-> "none",
                   ret |-> (CHOOSE r \in rows : r.identifier = attack_identifier).attack_front]
        ELSE Error

\* A call of retrieve_full_graph with an attack identifier.
RetrieveFullGraph(initial_node, attack_identifier) ==
    /\ \E out \in {retrieve_full_graph_of_attack(attacks, nodes, initial_node,
                                                 attack_identifier)} :
          returned' = [call |-> "retrieve_full_graph",
                       args |-> <<initial_node, attack_identifier>>,
                       raised |-> out.raised, ret |-> out.ret]
    /\ UNCHANGED <<STATE_MANAGER, ISIM_MANAGER, dispatch, nodes, graphs, attacks,
                   lastrowid, isim, last, durable, tasks, isim_down, heap>>

\* A call of retrieve_attacks: every row goes through _row_to_attack.
RetrieveAttacks ==
    /\ returned' = [call |-> "retrieve_attacks", args |-> <<>>,
                    raised |-> IF \E r \in attacks : ~row_loads(r)
                               THEN "InvalidDatabaseStateError" ELSE "none",
                    ret |-> IF \E r \in attacks : ~row_loads(r) THEN NULL
                            ELSE Len(retrieve_attacks(attacks))]
    /\ UNCHANGED <<STATE_MANAGER, ISIM_MANAGER, dispatch, nodes, graphs, attacks,
                   lastrowid, isim, last, durable, tasks, isim_down, heap>>

\* An operator writes the table Attacks from outside the engine: a row for
\* graph g whose attack_front is n, any node identifier or none of them.
WriteAttackRow(g, n) ==
    /\ lastrowid < MaxId
    /\ attacks' = attacks \cup {AttackRow(lastrowid + 1, g, n, get_context_as_json(EmptyContext))}
    /\ lastrowid' = lastrowid + 1
    /\ durable' = [durable EXCEPT !.attacks = attacks']
    /\ UNCHANGED <<STATE_MANAGER, ISIM_MANAGER, returned, dispatch, nodes, graphs,
                   isim, last, tasks, isim_down, heap>>

\* Alerts are ingested, the operator writes rows, and the retrieval functions
\* are called for the initial node of a graph and an attack identifier.
NextLoad ==
    \/ \E alert \in MitigatedAlerts : Update(alert)
    \/ \E g \in DOMAIN graphs : \E n \in 1..(Len(nodes) + 1) : WriteAttackRow(g, n)
    \/ \E g \in DOMAIN graphs : \E id \in 1..MaxId : RetrieveFullGraph(graphs[g], id)
    \/ RetrieveAttacks

\* The store with a chain of two nodes and a chain of one.
InitLoad == Init /\ nodes = StoreC.nodes

SpecLoad == InitLoad /\ [][NextLoad]_vars

-----------------------------------------------------------------------------
(* The module globals STATE_MANAGER and ISIM_MANAGER.                      *)

\* set_state_manager(state_manager)
set_state_manager(state_manager) ==
    /\ STATE_MANAGER' = state_manager
    /\ returned' = [call |-> "set_state_manager", args |-> <<state_manager>>,
                    raised |-> "none", ret |-> NULL]
    /\ UNCHANGED <<ISIM_MANAGER, dispatch, nodes, graphs, attacks, lastrowid,
                   isim, last, durable, tasks, isim_down, heap>>

\* get_state_manager()
get_state_manager ==
    /\ returned' = [call |-> "get_state_manager", args |-> <<>>,
                    raised |-> IF STATE_MANAGER = NULL
                               THEN "InvalidEnvironmentError" ELSE "none",
                    ret |-> STATE_MANAGER]
    /\ UNCHANGED <<STATE_MANAGER, ISIM_MANAGER, dispatch, nodes, graphs, attacks,
                   lastrowid, isim, last, durable, tasks, isim_down, heap>>

\* set_isim_manager(isim_manager): the driver is wrapped in a new IsimManager.
set_isim_manager(isim_manager) ==
    /\ ISIM_MANAGER' = isim_manager
    /\ returned' = [call |-> "set_isim_manager", args |-> <<isim_manager>>,
                    raised |-> "none", ret |-> NULL]
    /\ UNCHANGED <<STATE_MANAGER, dispatch, nodes, graphs, attacks, lastrowid,
                   isim, last, durable, tasks, isim_down, heap>>

\* get_isim_manager()
get_isim_manager ==
    /\ returned' = [call |-> "get_isim_manager", args |-> <<>>,
                    raised |-> IF ISIM_MANAGER = NULL
                               THEN "InvalidEnvironmentError" ELSE "none",
                    ret |-> ISIM_MANAGER]
    /\ UNCHANGED <<STATE_MANAGER, ISIM_MANAGER, dispatch, nodes, graphs, attacks,
                   lastrowid, isim, last, durable, tasks, isim_down, heap>>

\* The modules as imported: neither manager has been set.
InitImported ==
    /\ nodes = StoreB.nodes /\ graphs = StoreB.graphs
    /\ attacks = {}
    /\ lastrowid = 0
    /\ isim = {}
    /\ last = NoUpdate
    /\ durable = [attacks |-> attacks, nodes |-> nodes]
    /\ tasks = NoTasks
    /\ isim_down = FALSE
    /\ dispatch = NoDispatch
    /\ heap = <<>>
    /\ STATE_MANAGER = NULL /\ ISIM_MANAGER = NULL
    /\ returned = NoCall

\* Any caller sets or gets either manager, at any time; update(alert) runs
\* once get_state_manager() returns a manager.
NextImported ==
    \/ STATE_MANAGER # NULL /\ \E alert \in MitigatedAlerts : Update(alert)
    \/ \E m \in 1..MaxManagers : set_state_manager(m)
    \/ get_state_manager
    \/ \E m \in 1..MaxManagers : set_isim_manager(m)
    \/ get_isim_manager

SpecImported == InitImported /\ [][NextImported]_vars

-----------------------------------------------------------------------------
(* Several attacks on one graph: the store with the conditioned second     *)
(* node, where an attack waits at the second node while alerts that list   *)
(* the first node's technique keep arriving.                               *)

NextCrowd == (\E alert \in AsyncAlerts : UpdateUpTo(alert, MaxRows)) \/ Environment

SpecCrowd == InitFault /\ [][NextCrowd]_vars

-----------------------------------------------------------------------------
(* Attack contexts with keys of both types.  A context is the sequence of  *)
(* its entries in insertion order; an entry has the decimal text of an int *)
(* key or the text of a str key, and an Alert or a primitive (a number).   *)

\* The contexts a caller builds: up to MaxContext entries with distinct keys,
\* Alerts under the node identifiers 1 and 2, numbers under the strings "1",
\* "7" and "a".
Contexts ==
    LET Entries ==
            { [key |-> IntToStr(n), int |-> TRUE,
               v |-> [kind |-> "Alert", alert |-> a, prim |-> 0]] :
                 n \in 1..2, a \in {MkAlert(1, TRUE, <<T1>>), MkAlert(2, FALSE, <<>>)} }
            \cup { [key |-> k, int |-> FALSE,
                    v |-> [kind |-> "primitive", alert |-> NoAlert, prim |-> p]] :
                     k \in {<<"1">>, <<"7">>, <<"a">>}, p \in {0, 7} }
    IN  { c \in UNION { [1..n -> Entries] : n \in 0..MaxContext } :
            \A i, j \in DOMAIN c :
                (c[i].key = c[j].key /\ c[i].int = c[j].int) => i = j }

\* Attack.get_context_as_json: the members of the JSON object dumps writes,
\* in order; an int key is written as its decimal text.
context_to_json(context) ==
    [i \in DOMAIN context |->
        [key |-> context[i].key,
         value |-> IF context[i].int
                   THEN [is_str |-> TRUE, str |-> serialize(context[i].v.alert), num |-> 0]
                   ELSE [is_str |-> FALSE, str |-> serialize(NoAlert),
                         num |-> context[i].v.prim]]]

\* Attack.set_context_from_json on an Attack whose context is empty: loads
\* keeps the last member of each key; a key of digits becomes an int key and
\* its value goes through Alert.deserialize, whose loads raises TypeError for
\* a value that is not a string.
context_from_json(text) ==
    LET items == { i \in DOMAIN text :
                     \A j \in DOMAIN text : text[j].key = text[i].key => j <= i }
    IN  IF \E i \in items : isdigit(text[i].key) /\ ~text[i].value.is_str
        THEN [raised |-> "TypeError", context |-> {}]
        ELSE [raised |-> "none",
              context |->
                { IF isdigit(text[i].key)
                  THEN [key |-> IntToStr(StrToInt(text[i].key)), int |-> TRUE,
                        v |-> [kind |-> "Alert",
                               alert |-> deserialize(text[i].value.str), prim |-> 0]]
                  ELSE [key |-> text[i].key, int |-> FALSE,
                        v |-> IF text[i].value.is_str
                              THEN [kind |-> "str", alert |-> text[i].value.str.json,
                                    prim |-> 0]
                              ELSE [kind |-> "primitive", alert |-> NoAlert,
                                    prim |-> text[i].value.num]] : i \in items }]

\* A caller takes the JSON of an Attack with the given context and sets it
\* as the context of an Attack that has none.
RoundTrip(context) ==
    /\ \E out \in {context_from_json(context_to_json(context))} :
          returned' = [call |-> "set_context_from_json", args |-> <<context>>,
                       raised |-> out.raised, ret |-> out.context]
    /\ UNCHANGED <<STATE_MANAGER, ISIM_MANAGER, dispatch, nodes, graphs, attacks,
                   lastrowid, isim, last, durable, tasks, isim_down, heap>>

NextContext == \E context \in Contexts : RoundTrip(context)

SpecContext == Init /\ [][NextContext]_vars

-----------------------------------------------------------------------------
(* Reading the record of the last update.                                  *)

\* A step of update: the only step that leaves the ISIM alone.
UpdateStep == isim' = isim

\* The chain of the graph a row belongs to.
ChainOfRow(r) == retrieve_full_graph(nodes, graphs[r.attack_graph], {})

\* The position of a row's front in its chain.
FrontPos(r) == IndexOf(ChainOfRow(r), r.attack_front)

RowIds(rows) == { r.identifier : r \in rows }

RowOf(rows, id) == CHOOSE r \in rows : r.identifier = id

\* The attacks an update started: the last entries of its state.
Admitted(l) ==
    { l.state[i].identifier :
        i \in (Len(l.state) - Len(l.new_attack_graphs) + 1)..Len(l.state) }

\* The technique of node n is an element of the alert's list.
TechniqueListed(n, alert) ==
    \E i \in DOMAIN techniques(alert) : techniques(alert)[i] = nodes[n].technique

\* Every condition of node n is in the set of satisfied conditions.
ConditionsHold(n) ==
    \A i \in DOMAIN nodes[n].conditions : nodes[n].conditions[i] \in isim

-----------------------------------------------------------------------------
(* Claims about the ingest step.                                           *)

\* C1: advance(attack, alert) records the alert under context[id of the
\* current front]; when the front has a successor, the Attack object's
\* attack_front and the persisted row's attack_front both become that
\* successor; when it has none, the row is deleted and is_complete is true.
\* Stated of every attack an update step advanced or admitted.
C1_AdvanceContract ==
    [][UpdateStep =>
        \A i \in DOMAIN last'.state :
            LET m == last'.state[i]
                front == IF m.identifier \in RowIds(attacks)
                         THEN RowOf(attacks, m.identifier).attack_front
                         ELSE m.attack_graph[1]
                succ == nxt(m.attack_graph, front)
            IN  (m.identifier \in last'.advanced \cup Admitted(last')) =>
                   /\ front \in DOMAIN m.context
                   /\ m.context[front] = last'.alert
                   /\ IF succ # NULL
                      THEN /\ m.attack_front = succ
                           /\ m.identifier \in RowIds(attacks')
                           /\ RowOf(attacks', m.identifier).attack_front = succ
                      ELSE /\ m.identifier \notin RowIds(attacks')
                           /\ m.is_complete]_vars

\* C2: from a store with a graph [n1, n2] and no Attacks, ingesting an alert
\* whose techniques contain n1's technique and not n2's leaves exactly one
\* Attack row on the graph, with attack_front n2 and a context that maps
\* n1's id to that alert.
C2_InitialNodeTrigger ==
    [][UpdateStep =>
        \A g \in DOMAIN graphs :
            LET chain == retrieve_full_graph(nodes, graphs[g], {}) IN
            (/\ attacks = {}
             /\ Len(chain) = 2
             /\ TechniqueListed(chain[1], last'.alert)
             /\ ~TechniqueListed(chain[2], last'.alert)) =>
                \E r \in attacks' :
                    /\ { q \in attacks' : q.attack_graph = g } = {r}
                    /\ r.attack_front = chain[2]
                    /\ set_context_from_json(r.context)
                           = [n \in {chain[1]} |-> last'.alert]]_vars

\* C2, reached: the first attack the store ever started stands at n2 of a
\* two-node chain, admitted by an alert listing n1's technique only.
C2_Reached ==
    /\ lastrowid = 1
    /\ Admitted(last) = {1}
    /\ \E r \in attacks :
          /\ r.identifier = 1
          /\ Len(ChainOfRow(r)) = 2
          /\ FrontPos(r) = 2
          /\ TechniqueListed(ChainOfRow(r)[1], last.alert)
          /\ ~TechniqueListed(ChainOfRow(r)[2], last.alert)

\* C3: the lifecycle of an Attack on a chain of length L.  An update admits
\* it with its row's front at the second node (a chain of length 1 leaves no
\* row); every later alert that triggers its front moves the front by one
\* node, or deletes the row when the front is the last node; any other alert
\* leaves the row; and a row's context holds one alert per node passed.  So
\* the row exists after each of the first L-2 triggering alerts that follow
\* the admission and is deleted by alert L-1.
C3_Lifecycle ==
    [][UpdateStep =>
        /\ \A r \in attacks :
              IF TechniqueListed(r.attack_front, last'.alert) /\ ConditionsHold(r.attack_front)
              THEN IF FrontPos(r) = Len(ChainOfRow(r))
                   THEN r.identifier \notin RowIds(attacks')
                   ELSE /\ r.identifier \in RowIds(attacks')
                        /\ RowOf(attacks', r.identifier).attack_front
                               = ChainOfRow(r)[FrontPos(r) + 1]
              ELSE r \in attacks'
        /\ \A i \in DOMAIN last'.state :
              LET m == last'.state[i] IN
              m.identifier \in Admitted(last') =>
                 IF Len(m.attack_graph) = 1
                 THEN m.identifier \notin RowIds(attacks')
                 ELSE /\ m.identifier \in RowIds(attacks')
                      /\ RowOf(attacks', m.identifier).attack_front = m.attack_graph[2]
        /\ \A r \in attacks' :
              /\ r.attack_front \in Range(retrieve_full_graph(nodes', graphs'[r.attack_graph], {}))
              /\ DOMAIN set_context_from_json(r.context)
                    = { ChainOfRow(r)[k] :
                          k \in 1..(IndexOf(ChainOfRow(r), r.attack_front) - 1) }]_vars

\* C3, reached: an attack on the three-node chain was completed by the last
\* update, which advanced it from the last node.
C3_Reached ==
    \E i \in DOMAIN last.state :
        /\ last.state[i].is_complete
        /\ Len(last.state[i].attack_graph) = 3
        /\ last.state[i].identifier \in last.advanced
        /\ last.state[i].identifier \notin RowIds(attacks)
        /\ DOMAIN last.state[i].context = {1, 2, 3}

\* C4: ingesting an alert and then the same alert again leaves the number of
\* Attack rows per graph after the second ingest equal to the number after
\* the first.  Stated of two updates that ran against the same ISIM.
C4_NoDuplicateAttacks ==
    [][(UpdateStep /\ last'.alert = last.alert /\ last'.isim = last.isim) =>
        \A g \in DOMAIN graphs :
            Cardinality({ r \in attacks' : r.attack_graph = g })
                = Cardinality({ r \in attacks : r.attack_graph = g })]_vars

\* C5: an alert that does not trigger an Attack's front leaves that Attack's
\* row (existence, attack_front, context) as it was, each time it is
\* ingested.
C5_IdempotentAdvance ==
    [][UpdateStep =>
        \A r \in attacks :
            ~(TechniqueListed(r.attack_front, last'.alert) /\ ConditionsHold(r.attack_front))
                => r \in attacks']_vars

\* C5, reached: the last update loaded an attack whose front's technique the
\* alert lists, did not advance it, and its row stands.
C5_Reached ==
    \E i \in DOMAIN last.state :
        LET m == last.state[i] IN
        /\ m.identifier \notin last.advanced \cup Admitted(last)
        /\ TechniqueListed(m.attack_front, last.alert)
        /\ m.identifier \in RowIds(attacks)
        /\ RowOf(attacks, m.identifier).attack_front = m.attack_front

\* C6: in the advance step an existing Attack is advanced (its row moves on
\* or is deleted) if and only if its front's technique is an element of
\* alert.techniques() and every condition of the front is met by the alert.
C6_AdvanceIffTriggered ==
    [][UpdateStep =>
        \A r \in attacks :
            (/\ r.identifier \in last'.advanced
             /\ r \notin attacks')
            <=> (/\ TechniqueListed(r.attack_front, last'.alert)
                 /\ ConditionsHold(r.attack_front))]_vars

\* C6, reached: the last update advanced an attack whose front carries a
\* condition.
C6_Reached ==
    \E i \in DOMAIN last.state :
        /\ last.state[i].identifier \in last.advanced
        /\ nodes[last.state[i].attack_front].conditions # <<>>

\* C7: retrieve_new_graphs(alert) returns only graphs whose initial node's
\* technique equals an element of alert.techniques(), and none when that
\* list is empty.
C7_NewGraphsByMembership ==
    /\ \A i \in DOMAIN last.new_attack_graphs :
          TechniqueListed(last.new_attack_graphs[i], last.alert)
    /\ Len(techniques(last.alert)) = 0 => last.new_attack_graphs = <<>>

\* C8: retrieve_new_graphs(alert) does not return a graph when any Attack on
\* that graph holds an equal alert in its context.  The rows it reads are
\* those the advance step of the same update left.
C8_TrackedGraphNotReturned ==
    [][UpdateStep =>
        \A i \in DOMAIN last'.new_attack_graphs :
            \A r \in advance_loop(attacks, retrieve_attacks(attacks), 1, last'.alert).rows :
                graphs[r.attack_graph] = last'.new_attack_graphs[i] =>
                    \A k \in DOMAIN r.context :
                        deserialize(r.context[k]) # last'.alert]_vars

\* C9: every persisted Attack's attack_front is a node of the chain that
\* starts at the initial node of that Attack's graph.
C9_FrontInChain ==
    \A r \in attacks :
        /\ r.attack_graph \in DOMAIN graphs
        /\ \E k \in 1..Len(retrieve_full_graph(nodes, graphs[r.attack_graph], {})) :
              retrieve_full_graph(nodes, graphs[r.attack_graph], {})[k] = r.attack_front

\* C9, reached: a persisted attack stands at the third node of its chain.
C9_Reached ==
    \E r \in attacks : r.attack_front = 3 /\ ChainOfRow(r) = <<1, 2, 3>>

\* C10: the evaluation at the end of an update is relative to each live
\* attack's front as it stands after the advance and admit steps: past = the
\* ancestors of that front that are historically risky, present = that front
\* iff its technique is in alert.techniques(), future = the descendants of
\* that front whose probability exceeds the threshold.
C10_EvaluationAtNewFront ==
    \A i \in DOMAIN last.state :
        last.state[i].identifier \in RowIds(attacks) =>
            LET r == RowOf(attacks, last.state[i].identifier)
                chain == ChainOfRow(r)
            IN  /\ i \in DOMAIN last.evaluated
                /\ last.raised = "none"
                /\ last.evaluated[i].past
                      = { n \in all_before(chain, r.attack_front) :
                            /\ nodes[n].probabilities # <<>>
                            /\ historically_risky(nodes[n].probabilities) }
                /\ last.evaluated[i].present
                      = { n \in {r.attack_front} : TechniqueListed(n, last.alert) }
                /\ last.evaluated[i].future
                      = { n \in all_after(chain, r.attack_front) :
                            probability(nodes[n].probabilities) * 100
                                > PROBABILITY_TRESHOLD_PCT * SCALE }

-----------------------------------------------------------------------------
(* Claims about the alert-handling tasks.                                  *)

\* The Attacks table after update(alert) has run alone on it.
serial_update(store, alert) ==
    LET adv == advance_loop(store.rows, retrieve_attacks(store.rows), 1, alert)
        adm == admit_loop(adv.rows, adv.state, store.lastrowid,
                          retrieve_new_graphs(adv.rows, alert), 1, alert)
    IN  [rows |-> adm.rows, lastrowid |-> adm.lastrowid]

\* The table after the alerts of the tasks in order were ingested one after
\* the other, starting from the table the first task found.
RECURSIVE serial_run(_, _)
serial_run(order, k) ==
    IF k = 0 THEN tasks[1].base
    ELSE serial_update(serial_run(order, k - 1), tasks[order[k]].alert)

\* The orders in which the tasks of S can run one after the other: a task
\* that had ended when another was added comes before it.
Orders(S) ==
    { order \in [1..Cardinality(S) -> S] :
        \A i, j \in 1..Cardinality(S) :
            /\ order[i] = order[j] => i = j
            /\ order[i] \in tasks[order[j]].after => i < j }

Delivered == { t \in DOMAIN tasks : tasks[t].pc # "idle" }

\* C11: the commit at the end of one ingest step makes durable that step's
\* own mutations only: when a task commits, no other task in flight has
\* mutations written on the shared connection that are still uncommitted.
C11_CommitOwnMutationsOnly ==
    [][\A t \in DOMAIN tasks :
          Commit(t) => \A u \in InFlight \ {t} : ~tasks[u].wrote]_vars

\* C12: when the delivered tasks have all ended uncancelled, two of them
\* started or advanced the same Attack and the persisted rows load, these rows (existence,
\* attack_front, context) are those of ingesting the alerts one after the
\* other in some order that keeps every task after the tasks that had ended
\* before it was added.
C12_SerialisableAdvance ==
    ( /\ \A t \in Delivered : tasks[t].pc = "done"
      /\ \A r \in durable.attacks : row_loads(r)
      /\ \E t, u \in Delivered :
            /\ t # u
            /\ (tasks[t].advanced \cup tasks[t].started)
                  \cap (tasks[u].advanced \cup tasks[u].started) # {} )
    => \E order \in Orders(Delivered) :
           durable.attacks = serial_run(order, Cardinality(Delivered)).rows

\* C13: no attack row started by a task that was cancelled before its
\* commit is ever persisted, the commit of a later ingest step included.
C13_CancelledNeverPersisted ==
    \A t \in DOMAIN tasks :
        tasks[t].pc = "cancelled" =>
            tasks[t].started \cap RowIds(durable.attacks) = {}

\* C14: no commit persists a mutation of an ingest step that
\* InvalidDatabaseStateError has ended: when a task commits, no failed task
\* has writes on the connection that are still uncommitted.
C14_FailedStepPersistsNothing ==
    [][\A t \in DOMAIN tasks :
          Commit(t) => \A u \in DOMAIN tasks :
                          tasks[u].pc = "failed" => ~tasks[u].wrote]_vars

\* C15: handling a malformed alert (from_wazuh raises InvalidAlertError for
\* it) ends with InvalidAlertError and changes neither the Attack rows nor
\* the probability histories.
C15_MalformedAlertRejected ==
    [][\A raw \in RawAlerts :
          (from_wazuh(raw).raised = "InvalidAlertError" /\ HandleAlert(raw))
          => /\ last'.raised = "InvalidAlertError"
             /\ attacks' = attacks
             /\ nodes' = nodes]_vars

\* C16: the task that handled the last alert ended normally: no exception
\* left handle_alert.
C16_TaskEndsNormally == last.raised = "none"

C18_BoundedPool == Cardinality(InFlight) < MaxTasks

\* C19: for every persisted Attack and every node id k in its context, the
\* alert stored under k triggered node k: the technique of node k is an
\* element of that alert's techniques(), the entry recorded at admission
\* included.
C19_ContextAlertTriggeredNode ==
    \A r \in attacks :
        \A k \in DOMAIN set_context_from_json(r.context) :
            TechniqueListed(k, set_context_from_json(r.context)[k])

\* C20: after any sequence of then() calls, also on a node that has a
\* successor already and with prv= / nxt= given, every node n has
\* n.prv.nxt = n and n.nxt.prv = n where those links exist (so a successor
\* that was detached is left with prv = None), and the walk along nxt from
\* first() visits nodes in creation order, as the walk along prv from
\* last() does in reverse.
C20_ThenKeepsLinks ==
    \A n \in Objects :
        /\ heap[n].prv # NULL => heap[heap[n].prv].nxt = n /\ heap[n].prv < n
        /\ heap[n].nxt # NULL => heap[heap[n].nxt].prv = n /\ heap[n].nxt > n

\* C21: at every point, also after then() changed a chain on whose nodes
\* all_before() / all_after() were already called, all_before(n) and
\* all_after(n) return exactly the nodes now reachable from n along prv and
\* along nxt, so that their sizes and 1 add up to the length of n's chain.
C21_SetsFollowLinks ==
    \A n \in Objects :
        /\ loop_ends(heap, n, "prv") => all_before_of(heap, n).nodes = collect(heap, n, "prv")
        /\ loop_ends(heap, n, "nxt") => all_after_of(heap, n).nodes = collect(heap, n, "nxt")
        /\ (loop_ends(heap, n, "prv") /\ loop_ends(heap, n, "nxt"))
               => Cardinality(all_before_of(heap, n).nodes) + 1
                    + Cardinality(all_after_of(heap, n).nodes)
                  = Len(walk(heap, n, "prv", {})) + Len(walk(heap, n, "nxt", {})) - 1

-----------------------------------------------------------------------------
(* Claims about scoring.                                                   *)

\* C22: on a fixed chain of any length >= 2, factor 1, which is
\* (B / (B + 1 + A)) ^ ((1 - GRAPH_INTEREST) * 4 + 1), is strictly greater at
\* each node than at its predecessor: on the chains update() rescored and on
\* every chain of up to MaxChain nodes.
C22_Factor1Increasing ==
    \A chain \in { last.state[i].attack_graph : i \in DOMAIN last.state }
                    \cup { [k \in 1..len |-> k] : len \in 2..MaxChain } :
        \A k \in 1..(Len(chain) - 1) :
            factor_1(chain, chain[k + 1]) > factor_1(chain, chain[k])

\* update() rescored a chain of three nodes and stored a probability for
\* its second and third node.
C22_Reached ==
    \E i \in DOMAIN last.state :
        /\ Len(last.state[i].attack_graph) >= 3
        /\ \A k \in 2..3 : nodes[last.state[i].attack_graph[k]].probabilities # <<>>

\* C23: update_probability(alert) appends P_new to probability_history, and
\* returns true, if and only if |P_new - P_old| >= PROBABILITY_EPSILON, where
\* P_old is the last element of the history or 0 when it is empty; otherwise
\* the history is left unchanged (it returns false), and the stored
\* probabilities of the node are rewritten only in the true case.
C23_AppendIffChanged ==
    [][UpdateStep =>
        \A n \in DOMAIN nodes :
            LET rescored == { i \in DOMAIN last'.state : n \in Range(last'.state[i].attack_graph) }
                P_old == IF nodes[n].probabilities = <<>> THEN 0
                         ELSE nodes[n].probabilities[Len(nodes[n].probabilities)]
                P_new == new_probability(last'.state[CHOOSE i \in rescored : TRUE].attack_graph,
                                         n, last'.alert)
            IN  IF rescored # {} /\ Abs(P_new - P_old) > SCALE \div PROBABILITY_EPSILON_INV
                THEN nodes'[n].probabilities = Append(nodes[n].probabilities, P_new)
                ELSE nodes'[n].probabilities = nodes[n].probabilities]_vars

\* update() rescored a node whose history had grown before: the node holds
\* two probabilities at least and belongs to a chain of the last update.
C23_Reached ==
    \E i \in DOMAIN last.state : \E n \in Range(last.state[i].attack_graph) :
        Len(nodes[n].probabilities) >= 2

\* C24: the new probability of a node is (F1 + F2 + F3) / 3, where F3 is 1
\* when the node has no conditions and otherwise the number of its
\* conditions the alert meets divided by the number of its conditions.
C24_MeanOfFactors ==
    [][UpdateStep =>
        \A i \in DOMAIN last'.state : \A n \in Range(last'.state[i].attack_graph) :
            LET C == Len(nodes[n].conditions)
                met == { k \in 1..C : is_met(nodes[n].conditions[k], last'.alert) }
                F3 == IF C = 0 THEN SCALE ELSE (SCALE * Cardinality(met)) \div C
            IN  nodes'[n].probabilities # nodes[n].probabilities
                   => nodes'[n].probabilities[Len(nodes'[n].probabilities)]
                        = (factor_1(last'.state[i].attack_graph, n)
                             + factor_2(last'.state[i].attack_graph, n) + F3) \div 3]_vars

\* Both cases of F3 were scored: the last update ran with the ISIM
\* satisfying the condition of a node of its chain, that node was rescored
\* twice at least, and a node without conditions of the chain holds a
\* probability too.
C24_Reached ==
    \E i \in DOMAIN last.state :
        \E n, m \in Range(last.state[i].attack_graph) :
            /\ nodes[n].conditions # <<>>
            /\ Range(nodes[n].conditions) \subseteq last.isim
            /\ ~last.isim_down
            /\ Len(nodes[n].probabilities) >= 2
            /\ nodes[n].probabilities[Len(nodes[n].probabilities)]
                 > nodes[n].probabilities[Len(nodes[n].probabilities) - 1]
            /\ nodes[m].conditions = <<>>
            /\ nodes[m].probabilities # <<>>

\* C25: factor 2 lies in [0, 1] for every chain, also when the chain's
\* conditions number more than MAX_CONDITIONS / EASE_IMPACT, and so every
\* value in a probability_history lies in [0, 1].
C25_Factor2AndHistoryInUnitInterval ==
    /\ \A g \in DOMAIN graphs :
          \A n \in Range(retrieve_full_graph(nodes, graphs[g], {})) :
             /\ 0 <= factor_2(retrieve_full_graph(nodes, graphs[g], {}), n)
             /\ factor_2(retrieve_full_graph(nodes, graphs[g], {}), n) <= SCALE
    /\ \A n \in DOMAIN nodes : \A k \in DOMAIN nodes[n].probabilities :
          /\ 0 <= nodes[n].probabilities[k]
          /\ nodes[n].probabilities[k] <= SCALE

-----------------------------------------------------------------------------
(* Claims about conditions and workflows.                                  *)

C27_LocateCheapestCovering ==
    dispatch.node # NULL =>
        LET covering == { w \in DOMAIN Workflows :
                            nodes[dispatch.node].technique
                                \in Range(Workflows[w].effective_attacks) }
        IN  IF covering = {} THEN dispatch.wf = NULL
            ELSE /\ dispatch.wf \in covering
                 /\ \A v \in covering :
                       \/ Workflows[dispatch.wf].cost < Workflows[v].cost
                       \/ /\ Workflows[dispatch.wf].cost = Workflows[v].cost
                          /\ dispatch.wf <= v

\* C28: Workflow.execute(alert) sends no HTTP request when the binding of
\* the request body is incomplete (a workflow argument cannot be resolved
\* from the alert), and leaves executed = false in that case.
C28_NoRequestWithoutBody ==
    (/\ dispatch.wf # NULL
     /\ \E i \in DOMAIN Workflows[dispatch.wf].workflow_arguments :
           \A k \in DOMAIN Workflows[dispatch.wf].workflow_arguments[i].names :
              ~hasattr(dispatch.alert, Workflows[dispatch.wf].workflow_arguments[i].names[k]))
    => dispatch.requests = <<>> /\ ~dispatch.executed

\* C29: a selected workflow's endpoint is invoked for an alert only if every
\* one of the workflow's conditions is met by that alert; when is_executable
\* is false the invocation is skipped and executed stays false.
C29_InvokedOnlyWhenExecutable ==
    [][dispatch' # dispatch =>
        LET all_met == /\ dispatch'.wf # NULL
                       /\ \A c \in Range(Workflows[dispatch'.wf].conditions) :
                             is_met(c, dispatch'.alert)
        IN  /\ dispatch'.requests # <<>> => all_met
            /\ ~all_met => dispatch'.requests = <<>> /\ ~dispatch'.executed]_vars

\* A workflow that has conditions was invoked.
C29_Reached ==
    /\ dispatch.wf # NULL
    /\ Workflows[dispatch.wf].conditions # <<>>
    /\ dispatch.requests # <<>>

\* C30: a workflow invocation that ends with a response other than 200 sets
\* executed = false, is not retried (one HTTP request at most per dispatched
\* node and alert) and changes no Attack row and no node's probability
\* history.
C30_FailureIsFinalAndLocal ==
    [][(dispatch' # dispatch /\ dispatch'.requests # <<>> /\ dispatch'.status # 200) =>
        /\ ~dispatch'.executed
        /\ Len(dispatch'.requests) = 1
        /\ attacks' = attacks /\ nodes' = nodes /\ durable' = durable]_vars

\* A request was answered with a status other than 200 while an attack was
\* tracked and nodes held probabilities.
C30_Reached ==
    /\ dispatch.requests # <<>>
    /\ dispatch.status # 200
    /\ attacks # {}
    /\ \E n \in DOMAIN nodes : nodes[n].probabilities # <<>>

-----------------------------------------------------------------------------
(* Claims about loading and the module singletons.                         *)

\* C31: loading an Attack whose recorded attack_front is not a node of its
\* graph's chain raises InvalidDatabaseStateError, whatever the length of the
\* chain, both in retrieve_full_graph(initial_node, attack_id) called with the
\* initial node of the attack's graph and in retrieve_attacks.
C31_ForeignFrontRaises ==
    [][\A r \in attacks :
          /\ attacks' = attacks
          /\ r.attack_front \notin Range(ChainOfRow(r))
          /\ \/ returned'.call = "retrieve_attacks"
             \/ /\ returned'.call = "retrieve_full_graph"
                /\ returned'.args = <<graphs[r.attack_graph], r.identifier>>
          => returned'.raised = "InvalidDatabaseStateError"]_vars

\* C32: get_state_manager() and get_isim_manager() raise
\* InvalidEnvironmentError while the manager has not been set; once it has
\* been set they return that manager, and a later set does not replace it.
C32_SetOnce ==
    [][/\ returned'.call = "get_state_manager"
          => /\ STATE_MANAGER = NULL => returned'.raised = "InvalidEnvironmentError"
             /\ STATE_MANAGER # NULL
                   => returned'.raised = "none" /\ returned'.ret = STATE_MANAGER
       /\ returned'.call = "get_isim_manager"
          => /\ ISIM_MANAGER = NULL => returned'.raised = "InvalidEnvironmentError"
             /\ ISIM_MANAGER # NULL
                   => returned'.raised = "none" /\ returned'.ret = ISIM_MANAGER
       /\ STATE_MANAGER # NULL => STATE_MANAGER' = STATE_MANAGER
       /\ ISIM_MANAGER # NULL => ISIM_MANAGER' = ISIM_MANAGER]_vars

-----------------------------------------------------------------------------
(* Claims about factor 2.                                                  *)

\* C33: factor 2 depends only on the total number of conditions of the chain
\* a node is in: at every node of a chain it is EASE_IMPACT times that total
\* over MAX_CONDITIONS, hence the same at every node of the chain, not higher
\* after nodes were removed from the chain and not lower after nodes were
\* added to it.  Stated for the chains whose prv and nxt links agree.
C33_Factor2OfChainTotal ==
    \A n \in Objects :
        (/\ \A k \in Objects :
               /\ heap[k].prv # NULL => heap[heap[k].prv].nxt = k
               /\ heap[k].nxt # NULL => heap[heap[k].nxt].prv = k
         /\ loop_ends(heap, n, "prv") /\ loop_ends(heap, n, "nxt"))
            => \A m \in collect(heap, n, "prv") \cup collect(heap, n, "nxt") :
                   (loop_ends(heap, m, "prv") /\ loop_ends(heap, m, "nxt"))
                       => factor_2_of(heap, m) = factor_2_of(heap, n)

-----------------------------------------------------------------------------
(* Claims about the fronts and contexts update() persists.                 *)

\* C34: over serially ingested alerts, the position of a live Attack's
\* persisted front in its chain never decreases and grows by at most one
\* node per ingested alert; an attack an alert admits ends that step with its
\* front at the second node, also when the alert lists the second node's
\* technique.
C34_FrontMovesOnePerAlert ==
    [][UpdateStep =>
        /\ \A r \in attacks : \A q \in attacks' :
              q.identifier = r.identifier =>
                 /\ q.attack_graph = r.attack_graph
                 /\ IndexOf(ChainOfRow(r), q.attack_front) - FrontPos(r) \in {0, 1}
        /\ \A q \in attacks' :
              q.identifier \notin RowIds(attacks) =>
                 /\ q.identifier \in Admitted(last')
                 /\ Len(ChainOfRow(q)) >= 2
                 /\ q.attack_front = ChainOfRow(q)[2]
        /\ \A i \in DOMAIN last'.state :
              (/\ last'.state[i].identifier \in Admitted(last')
               /\ Len(last'.state[i].attack_graph) >= 2)
                  => \E q \in attacks' :
                        /\ q.identifier = last'.state[i].identifier
                        /\ q.attack_front = last'.state[i].attack_graph[2]]_vars

\* C34, reached: an alert that lists the techniques of the first and of the
\* second node of a three-node chain admitted an attack, whose row stands at
\* the second node.
C34_Reached ==
    \E q \in attacks :
        /\ q.identifier \in Admitted(last)
        /\ Len(ChainOfRow(q)) = 3
        /\ TechniqueListed(ChainOfRow(q)[1], last.alert)
        /\ TechniqueListed(ChainOfRow(q)[2], last.alert)
        /\ FrontPos(q) = 2

\* C35: after every completed ingest step, the integer keys of the context
\* of every persisted Attack are exactly the identifiers of the nodes strictly
\* before its front in its chain; so no persisted Attack has its front at the
\* initial node with an empty context.
C35_ContextKeysAreNodesPassed ==
    \A r \in attacks :
        /\ row_loads(r)
        /\ FrontPos(r) >= 2
        /\ { StrToInt(k) : k \in { k \in DOMAIN r.context : isdigit(k) } }
              = { ChainOfRow(r)[i] : i \in 1..(FrontPos(r) - 1) }

\* C35, reached: a persisted Attack stands at the third node of its chain
\* and its context has the two nodes before it as keys.
C35_Reached ==
    \E r \in attacks :
        /\ row_loads(r)
        /\ FrontPos(r) = 3
        /\ DOMAIN set_context_from_json(r.context) = {ChainOfRow(r)[1], ChainOfRow(r)[2]}

\* C36: one ingest step starts at most one new Attack per attack graph,
\* however many Attacks exist on the graph: retrieve_new_graphs returns each
\* graph at most once.
C36_OneNewAttackPerGraph ==
    [][UpdateStep =>
        \A i \in DOMAIN last'.new_attack_graphs :
            \A j \in DOMAIN last'.new_attack_graphs :
                last'.new_attack_graphs[i] = last'.new_attack_graphs[j] => i = j]_vars

-----------------------------------------------------------------------------
(* Claims about interleaved tasks and about the evaluation.                *)

\* C37: under interleaved ingest tasks, no task that loads the live attacks
\* gets an Attack another task has inserted with start_attack and not yet
\* advanced: an Attack whose front is the initial node of its chain and whose
\* context is empty.
C37_NoHalfStartedAttackLoaded ==
    [][\A t \in DOMAIN tasks :
          (tasks[t].pc = "load" /\ tasks'[t].pc = "advance")
             => \A i \in DOMAIN tasks'[t].state :
                   ~ /\ tasks'[t].state[i].attack_front = tasks'[t].state[i].attack_graph[1]
                     /\ DOMAIN tasks'[t].state[i].context = {}]_vars

\* C38: an Attack completed during an ingest step (its row deleted by the
\* advance of its last node) is left out of the rest of the step: unless a live Attack of the step has the same
\* chain, its nodes are not re-scored, and it puts no node into past, present
\* or future, the sets the mitigation is dispatched from.
C38_CompletedAttackLeftOut ==
    [][UpdateStep =>
        \A i \in DOMAIN last'.state :
            (/\ last'.state[i].is_complete
             /\ last'.state[i].identifier \in last'.advanced
             /\ \A j \in DOMAIN last'.state :
                   last'.state[j].attack_graph = last'.state[i].attack_graph
                      => last'.state[j].is_complete)
               => /\ \A n \in Range(last'.state[i].attack_graph) :
                        nodes'[n].probabilities = nodes[n].probabilities
                  /\ i \in DOMAIN last'.evaluated
                        => /\ last'.evaluated[i].past = {}
                           /\ last'.evaluated[i].present = {}
                           /\ last'.evaluated[i].future = {}]_vars

\* C39: whenever the classification of update evaluates historically_risky()
\* on a node before a front, the node's probability_history is not empty, so
\* the mean is defined and no TypeError ends the step; also for a node whose
\* stored probabilities were empty before the ingest.
C39_AncestorsHaveHistory ==
    [][UpdateStep =>
        \A i \in DOMAIN last'.evaluated :
            /\ last'.evaluated[i].raised # "TypeError"
            /\ \A n \in all_before(last'.state[i].attack_graph,
                                   last'.state[i].attack_front) :
                  Len(nodes'[n].probabilities) > 0]_vars

\* C39, reached: the evaluation went over the node before the front of an
\* Attack that never passed that node in the engine (its row was written from
\* outside, on a store without probabilities), and the node's history holds
\* the one probability the re-scoring gave it.
C39_Reached ==
    \E i \in DOMAIN last.evaluated :
        /\ last.state[i].identifier \notin Admitted(last)
        /\ all_before(last.state[i].attack_graph, last.state[i].attack_front) # {}
        /\ \A n \in all_before(last.state[i].attack_graph, last.state[i].attack_front) :
              /\ n \notin DOMAIN last.state[i].context
              /\ Len(nodes[n].probabilities) = 1
        /\ last.evaluated[i].raised # "TypeError"

-----------------------------------------------------------------------------
(* Claims about the stored context.                                        *)

\* C40: the serialisation of a context round-trips: for a context whose keys
\* are node identifiers (int) or strings, with Alerts under the int keys and
\* primitives under the str keys, set_context_from_json(get_context_as_json())
\* on an Attack without context gives the same map, keys of the same types
\* and equal values, also when a str key is made of digits only.
C40_ContextRoundTrip ==
    returned.call = "set_context_from_json"
        => /\ returned.raised = "none"
           /\ returned.ret = Range(returned.args[1])

====
